---------------------------- MODULE Spec2Model ----------------------------
(***************************************************************************)
(* Control-flow structuring engine of the Move decompiler:                 *)
(*   scc.rs                  Graph, TarjanScc                               *)
(*   loop_reconstruction.rs  loop_reconstruction (recursive structuring)    *)
(*   topo.rs                 topo_sort (constrained stable topological sort)*)
(* and the aggregator of the Aptos VM:                                      *)
(*   aggregator_extension.rs Aggregator, AggregatorData                     *)
(*                                                                          *)
(* Block indices are 0-based as in the source: a block array is a function  *)
(* over 0..n-1.  The iteration order of a HashSet is unspecified in the     *)
(* source; it is modelled by the variable ord, a permutation of the node    *)
(* ids chosen nondeterministically: a set is iterated in the order its      *)
(* members appear in ord.                                                   *)
(***************************************************************************)
EXTENDS Integers, Sequences, FiniteSets, TLC

VARIABLES pc, ord, nodes, graph, tarjan, bbs0, bbs, res, loops, calls, sorted, sres, sorder,
          sforced, adata, oplog, acall

vars == <<pc, ord, nodes, graph, tarjan, bbs0, bbs, res, loops, calls, sorted, sres, sorder,
          sforced, adata, oplog, acall>>

(***************************************************************************)
(* Bounds of the model.                                                     *)
(***************************************************************************)
\* node ids of the graphs fed to TarjanScc are 0..MaxNode
MaxNode == 2

\* number of distinct edges of the graphs fed to TarjanScc
MaxEdges == 4

\* number of blocks of the arrays handed to loop_reconstruction
MaxBlocks == 4

\* number of IfElse blocks of the arrays handed to loop_reconstruction
MaxIfElse == 2

\* usize::MAX, at a word width of 30 bits
UsizeMax == 1073741823

None == -1

(***************************************************************************)
(* Generic helpers.                                                         *)
(***************************************************************************)
Put(f, k, v) == [x \in (DOMAIN f) \cup {k} |-> IF x = k THEN v ELSE f[x]]

Get(f, k, dflt) == IF k \in DOMAIN f THEN f[k] ELSE dflt

Range(s) == {s[i] : i \in DOMAIN s}

Perms(S) == {p \in [1..Cardinality(S) -> S] : \A x \in S : \E i \in DOMAIN p : p[i] = x}

\* iteration of a HashSet: its members in the order the hash order o lists them
Iter(S, o) == SelectSeq(o, LAMBDA x : x \in S)

Reverse(s) == [i \in 1..Len(s) |-> s[Len(s) + 1 - i]]

(***************************************************************************)
(* scc.rs: Graph                                                            *)
(***************************************************************************)
GraphNew == [nodes |-> {}, graph |-> <<>>]

add_edge(g, from, to) ==
    [nodes |-> g.nodes \cup {from, to},
     graph |-> Put(g.graph, from, Get(g.graph, from, {}) \cup {to})]

ensure_node(g, node) == [g EXCEPT !.nodes = @ \cup {node}]

edges(g, node) == Get(g.graph, node, {})

(***************************************************************************)
(* scc.rs: TarjanScc                                                        *)
(***************************************************************************)
TarjanInit ==
    [index |-> 0, stack |-> <<>>, scc |-> <<>>, sccs |-> <<>>,
     indices |-> <<>>, lowlinks |-> <<>>, in_stack |-> {}]

Min(a, b) == IF a < b THEN a ELSE b

\* a faulty variant of Pop: only u joins the new component
PopBroken(t, u) ==
    LET k == CHOOSE i \in 1..Len(t.stack) : t.stack[i] = u
        popped == Reverse(SubSeq(t.stack, k, Len(t.stack)))
        idx == Len(t.sccs)
    IN  [t EXCEPT !.stack = SubSeq(@, 1, k - 1),
                  !.in_stack = @ \ Range(popped),
                  !.scc = [x \in (DOMAIN @) \cup {u} |-> IF x = u THEN idx ELSE @[x]],
                  !.sccs = Append(@, <<u>>)]

\* a faulty variant of Pop: the new component takes id 0 and the older ones
\* move up by one
PopFront(t, u) ==
    LET k == CHOOSE i \in 1..Len(t.stack) : t.stack[i] = u
        popped == Reverse(SubSeq(t.stack, k, Len(t.stack)))
    IN  [t EXCEPT !.stack = SubSeq(@, 1, k - 1),
                  !.in_stack = @ \ Range(popped),
                  !.scc = [x \in (DOMAIN @) \cup Range(popped) |->
                              IF x \in Range(popped) THEN 0 ELSE @[x] + 1],
                  !.sccs = <<popped>> \o @]

\* lines 101-114: pop the stack down to and including u into a new component
Pop(t, u) ==
    LET k == CHOOSE i \in 1..Len(t.stack) : t.stack[i] = u
        popped == Reverse(SubSeq(t.stack, k, Len(t.stack)))
        idx == Len(t.sccs)
    IN  [t EXCEPT !.stack = SubSeq(@, 1, k - 1),
                  !.in_stack = @ \ Range(popped),
                  !.scc = [x \in (DOMAIN @) \cup Range(popped) |->
                              IF x \in Range(popped) THEN idx ELSE @[x]],
                  !.sccs = Append(@, popped)]

RECURSIVE strong_connect(_, _, _, _), visit_edges(_, _, _, _, _)

\* lines 90-99: the loop over the successors of u, vs the part still to visit
visit_edges(t, g, o, u, vs) ==
    IF vs = <<>> THEN t
    ELSE LET v == Head(vs)
             t1 == IF v \notin DOMAIN t.indices
                   THEN LET tc == strong_connect(t, g, o, v)
                        IN  [tc EXCEPT !.lowlinks[u] = Min(tc.lowlinks[u], tc.lowlinks[v])]
                   ELSE IF v \in t.in_stack
                   THEN [t EXCEPT !.lowlinks[u] = Min(t.lowlinks[u], t.indices[v])]
                   ELSE t
         IN  visit_edges(t1, g, o, u, Tail(vs))

strong_connect(t, g, o, u) ==
    LET t1 == [t EXCEPT !.indices = Put(@, u, t.index),
                        !.lowlinks = Put(@, u, t.index),
                        !.index = @ + 1,
                        !.stack = Append(@, u),
                        !.in_stack = @ \cup {u}]
        t2 == visit_edges(t1, g, o, u, Iter(edges(g, u), o))
    IN  IF t2.lowlinks[u] = t2.indices[u] THEN Pop(t2, u) ELSE t2

RECURSIVE tarjan_roots(_, _, _, _)

\* lines 62-66: the loop over graph.nodes()
tarjan_roots(t, g, o, us) ==
    IF us = <<>> THEN t
    ELSE tarjan_roots(IF Head(us) \notin DOMAIN t.indices
                      THEN strong_connect(t, g, o, Head(us)) ELSE t,
                      g, o, Tail(us))

TarjanNew(g, o) == tarjan_roots(TarjanInit, g, o, Iter(g.nodes, o))

\* scc_for_node: the component id of a node, None if it has none
scc_for_node(t, node) == Get(t.scc, node, None)

\* the members of component id (0-based, as in the source)
scc_members(t, id) == t.sccs[id + 1]

(***************************************************************************)
(* Specification SpecScc: a Graph is built by add_edge / ensure_node calls  *)
(* and TarjanScc::new is run on it.                                         *)
(***************************************************************************)
NodeIds == 0..MaxNode

TheGraph == [nodes |-> nodes, graph |-> graph]

EdgeCount(g) == Cardinality({e \in (DOMAIN g.graph) \X NodeIds : e[2] \in g.graph[e[1]]})

InitScc ==
    /\ pc = "build"
    /\ ord = <<>>
    /\ nodes = {}
    /\ graph = <<>>
    /\ tarjan = TarjanInit
    /\ bbs0 = <<>>
    /\ bbs = <<>>
    /\ res = "none"
    /\ loops = <<>>
    /\ calls = <<>>
    /\ sorted = <<>>
    /\ sres = "none"
    /\ sorder = <<>>
    /\ sforced = <<>>
    /\ adata = <<>>
    /\ oplog = <<>>
    /\ acall = <<>>

AddEdge ==
    /\ pc = "build"
    /\ \E from \in NodeIds, to \in NodeIds :
          LET g == add_edge(TheGraph, from, to)
          IN  /\ EdgeCount(g) <= MaxEdges
              /\ nodes' = g.nodes /\ graph' = g.graph
    /\ UNCHANGED <<pc, ord, tarjan, bbs0, bbs, res, loops, calls, sorted, sres, sorder, sforced, adata, oplog, acall>>

EnsureNode ==
    /\ pc = "build"
    /\ \E n \in NodeIds :
          LET g == ensure_node(TheGraph, n)
          IN  nodes' = g.nodes /\ graph' = g.graph
    /\ UNCHANGED <<pc, ord, tarjan, bbs0, bbs, res, loops, calls, sorted, sres, sorder, sforced, adata, oplog, acall>>

RunTarjan ==
    /\ pc = "build"
    /\ \E o \in Perms(NodeIds) :
          /\ ord' = o
          /\ tarjan' = TarjanNew(TheGraph, o)
    /\ pc' = "scc"
    /\ UNCHANGED <<nodes, graph, bbs0, bbs, res, loops, calls, sorted, sres, sorder, sforced, adata, oplog, acall>>

NextScc == AddEdge \/ EnsureNode \/ RunTarjan

SpecScc == InitScc /\ [][NextScc]_vars

(***************************************************************************)
(* C1: TarjanScc::new partitions the registered nodes into strongly         *)
(* connected components.                                                    *)
(***************************************************************************)
\* v is reachable from u along edges of the graph (paths of length >= 0)
RECURSIVE ReachSet(_, _)
ReachSet(g, S) ==
    LET T == S \cup UNION {edges(g, x) : x \in S}
    IN  IF T = S THEN S ELSE ReachSet(g, T)

Reaches(g, u, v) == v \in ReachSet(g, {u})

\* C1: after TarjanScc::new every registered node (also an isolated one)
\* belongs to exactly one component, two nodes of one component are mutually
\* reachable, and two nodes of different components are not mutually reachable.
SccPartition ==
    pc = "scc" =>
      /\ DOMAIN tarjan.scc = nodes
      /\ \A u \in nodes : tarjan.scc[u] \in 0..(Len(tarjan.sccs) - 1)
      /\ \A i \in 1..Len(tarjan.sccs) :
            /\ tarjan.sccs[i] # <<>>
            /\ \A k \in 1..Len(tarjan.sccs[i]) : tarjan.scc[tarjan.sccs[i][k]] = i - 1
            /\ \A k, l \in 1..Len(tarjan.sccs[i]) :
                  k # l => tarjan.sccs[i][k] # tarjan.sccs[i][l]
      /\ \A u \in nodes : \E k \in 1..Len(tarjan.sccs[tarjan.scc[u] + 1]) :
            tarjan.sccs[tarjan.scc[u] + 1][k] = u
      /\ \A u, v \in nodes :
            (tarjan.scc[u] = tarjan.scc[v])
              <=> (Reaches(TheGraph, u, v) /\ Reaches(TheGraph, v, u))

\* a graph with an isolated node, a cycle of two nodes and an edge leaving it
SccPartitionWitness ==
    /\ pc = "scc"
    /\ nodes = NodeIds
    /\ \E u, v, w \in nodes :
          /\ u # v /\ v # w /\ u # w
          /\ tarjan.scc[u] = tarjan.scc[v]
          /\ tarjan.scc[w] # tarjan.scc[u]
          /\ edges(TheGraph, w) = {}
          /\ w \notin UNION {edges(TheGraph, x) : x \in nodes}

(***************************************************************************)
(* datastructs: Terminator and BasicBlock                                   *)
(***************************************************************************)
Normal == [tag |-> "Normal"]

Ret == [tag |-> "Ret"]

Abort == [tag |-> "Abort"]

Branch(t) == [tag |-> "Branch", target |-> t]

IfElse(a, b) == [tag |-> "IfElse", if_block |-> a, else_block |-> b]

While(a, b) == [tag |-> "While", inner_block |-> a, outer_block |-> b]

Break(t) == [tag |-> "Break", target |-> t]

Continue(t) == [tag |-> "Continue", target |-> t]

\* Terminator::next_blocks: the successors of a terminator, in order
next_blocks(t) ==
    CASE t.tag = "IfElse" -> <<t.if_block, t.else_block>>
      [] t.tag = "While" -> <<t.inner_block, t.outer_block>>
      [] t.tag \in {"Branch", "Break", "Continue"} -> <<t.target>>
      [] OTHER -> <<>>

NextSet(t) == Range(next_blocks(t))

\* BasicBlock::default()
DefaultBlock ==
    [idx |-> 0, offset |-> 0, next |-> Normal, topo_priority |-> None,
     topo_before |-> {}, topo_after |-> {}, unconditional_loop_entry |-> None]

\* a block array is a function over 0..n-1
BLen(blocks) == Cardinality(DOMAIN blocks)

BAppend(blocks, more) ==
    [i \in 0..(BLen(blocks) + Len(more) - 1) |->
        IF i < BLen(blocks) THEN blocks[i] ELSE more[i - BLen(blocks) + 1]]

RECURSIVE SortedSeq(_)
SortedSeq(S) ==
    IF S = {} THEN <<>>
    ELSE LET m == CHOOSE x \in S : \A y \in S : x <= y
         IN  <<m>> \o SortedSeq(S \ {m})

\* iteration of a HashSet of block ids: the ids the hash order o lists, in
\* that order, then the ids it does not list (synthetic blocks)
IterIds(S, o) == Iter(S, o) \o SortedSeq(S \ Range(o))

(***************************************************************************)
(* loop_reconstruction.rs: build_graph                                      *)
(***************************************************************************)
RECURSIVE bg_succ(_, _, _, _, _)

\* lines 348-358: the successors nxts of block idx
bg_succ(blocks, view, idx, nxts, st) ==
    IF nxts = <<>> THEN st
    ELSE LET nxt == Head(nxts)
             st1 == IF nxt \notin view THEN st
                    ELSE [graph |-> IF idx \in view THEN add_edge(st.graph, idx, nxt)
                                    ELSE st.graph,
                          visited |-> st.visited \cup {nxt},
                          queue |-> IF nxt \in st.visited THEN st.queue
                                    ELSE Append(st.queue, nxt)]
         IN  bg_succ(blocks, view, idx, Tail(nxts), st1)

RECURSIVE bg_loop(_, _, _)

\* lines 347-359: the breadth-first walk
bg_loop(blocks, view, st) ==
    IF st.queue = <<>> THEN st.graph
    ELSE LET idx == Head(st.queue)
         IN  bg_loop(blocks, view,
                     bg_succ(blocks, view, idx, next_blocks(blocks[idx].next),
                             [st EXCEPT !.queue = Tail(@)]))

build_graph(blocks, current_view, starting_idx) ==
    bg_loop(blocks, current_view,
            [graph |-> IF starting_idx \in current_view
                       THEN ensure_node(GraphNew, starting_idx) ELSE GraphNew,
             visited |-> {starting_idx},
             queue |-> <<starting_idx>>])

(***************************************************************************)
(* loop_reconstruction.rs: the component super-graph (lines 32-81)          *)
(***************************************************************************)
\* lines 45-51: the component of v, the fake exit component if v has none
SccOrExit(t, v) == IF v \in DOMAIN t.scc THEN t.scc[v] ELSE UsizeMax

\* lines 38-65: the edges u -> v that leave the component of u
CrossEdges(blocks, view, t) ==
    {e \in UNION {{<<u, v>> : v \in NextSet(blocks[u].next)} :
                     u \in (DOMAIN blocks) \cap view \cap DOMAIN t.scc} :
        t.scc[e[1]] # SccOrExit(t, e[2])}

\* find_possible_root
find_possible_root(blocks, start_idx, view) ==
    {v \in NextSet(blocks[start_idx].next) : v \in view}

\* lines 67-81: the nodes seeded as entries of the root component(s)
Roots(blocks, view, start_idx) ==
    IF start_idx \in view THEN {start_idx}
    ELSE find_possible_root(blocks, start_idx, view)

\* scc_super_graph_node_entries, as a function of the component id
node_entries(blocks, view, t, start_idx) ==
    [c \in 0..(Len(t.sccs) - 1) |->
        {e[2] : e \in {x \in CrossEdges(blocks, view, t) : SccOrExit(t, x[2]) = c}}
          \cup {r \in Roots(blocks, view, start_idx) : SccOrExit(t, r) = c}]

\* scc_super_graph_node_exits, as a function of the component id
node_exits(blocks, view, t) ==
    [c \in 0..(Len(t.sccs) - 1) |->
        {e[2] : e \in {x \in CrossEdges(blocks, view, t) : t.scc[x[1]] = c}}]

\* a faulty variant of is_loop: every component counts as a loop
IsLoopAlways(blocks, scc_nodes) == TRUE

\* lines 85-91, 125-130: a component that is a loop
is_loop(blocks, scc_nodes) ==
    \/ Len(scc_nodes) # 1
    \/ scc_nodes[1] \in NextSet(blocks[scc_nodes[1]].next)

\* a faulty variant of validate: every component is accepted
ValidateNothing(blocks, t, entries) == "Ok"

\* lines 84-120: the first component, in Tarjan's order, that fails validation
validate(blocks, t, entries) ==
    LET bad == {i \in 1..Len(t.sccs) :
                   is_loop(blocks, t.sccs[i]) /\ Cardinality(entries[i - 1]) # 1}
    IN  IF bad = {} THEN "Ok"
        ELSE LET i == CHOOSE x \in bad : \A y \in bad : x <= y
             IN  IF Cardinality(entries[i - 1]) > 1 THEN "ErrMultipleEntries"
                 ELSE "ErrDeadBlock"

(***************************************************************************)
(* loop_reconstruction.rs: the exit of a loop (lines 138-173)               *)
(***************************************************************************)
RECURSIVE fold_exit(_, _, _)

\* lines 147-156: the fold over the exits; acc is (max_offset, current_exit)
fold_exit(blocks, xs, acc) ==
    IF xs = <<>> THEN acc
    ELSE fold_exit(blocks, Tail(xs),
                   IF blocks[Head(xs)].offset > acc[1]
                   THEN <<blocks[Head(xs)].offset, blocks[Head(xs)].idx>>
                   ELSE acc)

\* a faulty variant of choose_exit: the else-target of the entry is not
\* preferred
ChooseExitByOffset(blocks, o, scc_entry, scc_exits) ==
    IF Cardinality(scc_exits) > 1
    THEN fold_exit(blocks, IterIds(scc_exits, o), <<0, 0>>)[2]
    ELSE IF Cardinality(scc_exits) = 1 THEN IterIds(scc_exits, o)[1]
    ELSE UsizeMax

\* lines 138-173
choose_exit(blocks, o, scc_entry, scc_exits) ==
    LET n == Cardinality(scc_exits)
        nx == blocks[scc_entry].next
        e1 == IF n > 1 /\ nx.tag = "IfElse" /\ nx.else_block \in scc_exits
              THEN nx.else_block ELSE UsizeMax
        e2 == IF n > 1 /\ e1 = UsizeMax
              THEN fold_exit(blocks, IterIds(scc_exits, o), <<0, 0>>)[2]
              ELSE e1
    IN  IF e2 = UsizeMax /\ n = 1 THEN IterIds(scc_exits, o)[1] ELSE e2

(***************************************************************************)
(* loop_reconstruction.rs: rewriting the nodes of a loop (lines 175-253)    *)
(* rw = [bbs, new_blocks, next_block_idx, dummy_break, dummy_continue]      *)
(***************************************************************************)
\* a faulty variant of dummy_block: lines 188 and 210 are lost, the block
\* keeps the idx of BasicBlock::default
DummyBlockNoIdx(id, base, scc_exit, term) ==
    [DefaultBlock EXCEPT !.offset = UsizeMax, !.topo_priority = 0,
                         !.topo_after = {base}, !.topo_before = {scc_exit},
                         !.next = term]

\* lines 189-195, 211-217: a synthetic block
dummy_block(id, base, scc_exit, term) ==
    [DefaultBlock EXCEPT !.idx = id, !.offset = UsizeMax, !.topo_priority = 0,
                         !.topo_after = {base}, !.topo_before = {scc_exit},
                         !.next = term]

\* a faulty variant of dummy_continue_step: the HashMap lookup of line 184 is lost
DummyContinueNoMemo(rw, base, x, scc_entry, scc_exit) ==
    IF x # scc_entry THEN [rw |-> rw, x |-> x]
    ELSE LET id == rw.next_block_idx
         IN  [rw |-> [rw EXCEPT
                        !.next_block_idx = @ + 1,
                        !.new_blocks = Append(@, dummy_block(id, base, scc_exit,
                                                             Continue(scc_entry))),
                        !.dummy_continue = Put(@, base, id)],
              x |-> id]

\* lines 183-203: a target that is the loop entry goes to a Continue block
dummy_continue_step(rw, base, x, scc_entry, scc_exit) ==
    IF x # scc_entry THEN [rw |-> rw, x |-> x]
    ELSE IF base \in DOMAIN rw.dummy_continue
    THEN [rw |-> rw, x |-> rw.dummy_continue[base]]
    ELSE LET id == rw.next_block_idx
         IN  [rw |-> [rw EXCEPT
                        !.next_block_idx = @ + 1,
                        !.new_blocks = Append(@, dummy_block(id, base, scc_exit,
                                                             Continue(scc_entry))),
                        !.dummy_continue = Put(@, base, id)],
              x |-> id]

\* lines 204-225: a target that is the loop exit goes to a Break block
dummy_break_step(rw, base, x, scc_entry, scc_exit) ==
    IF x # scc_exit THEN [rw |-> rw, x |-> x]
    ELSE IF base \in DOMAIN rw.dummy_break
    THEN [rw |-> rw, x |-> rw.dummy_break[base]]
    ELSE LET id == rw.next_block_idx
         IN  [rw |-> [rw EXCEPT
                        !.next_block_idx = @ + 1,
                        !.new_blocks = Append(@, dummy_block(id, base, scc_exit,
                                                             Break(scc_exit))),
                        !.dummy_break = Put(@, base, id)],
              x |-> id]

add_dummy_block_if_required(rw, base, x, scc_entry, scc_exit) ==
    LET c == dummy_continue_step(rw, base, x, scc_entry, scc_exit)
    IN  dummy_break_step(c.rw, base, c.x, scc_entry, scc_exit)

\* a faulty variant of rewrite_branch: Break and Continue change places
RewriteBranchSwapped(next, scc_entry, scc_exit) ==
    LET n1 == IF next.target = scc_entry THEN Break(next.target) ELSE next
    IN  IF next.target = scc_exit THEN Continue(next.target) ELSE n1

\* lines 232-239: a Branch of the loop
rewrite_branch(next, scc_entry, scc_exit) ==
    LET n1 == IF next.target = scc_entry THEN Continue(next.target) ELSE next
    IN  IF next.target = scc_exit THEN Break(next.target) ELSE n1

\* lines 230-252: one node of the loop
rewrite_node(rw, i, scc_entry, scc_exit) ==
    LET b == rw.bbs[i]
    IN  CASE b.next.tag = "Branch" ->
               [rw EXCEPT !.bbs[i].next = rewrite_branch(b.next, scc_entry, scc_exit)]
          [] b.next.tag = "IfElse" /\ b.idx # scc_entry ->
               LET r1 == add_dummy_block_if_required(rw, i, b.next.if_block,
                                                     scc_entry, scc_exit)
                   r2 == add_dummy_block_if_required(r1.rw, i, b.next.else_block,
                                                     scc_entry, scc_exit)
               IN  [r2.rw EXCEPT !.bbs[i].next = IfElse(r1.x, r2.x)]
          [] OTHER -> rw

RECURSIVE rewrite_nodes(_, _, _, _)

\* lines 229-253: the loop over scc_nodes
rewrite_nodes(rw, is, scc_entry, scc_exit) ==
    IF is = <<>> THEN rw
    ELSE rewrite_nodes(rewrite_node(rw, Head(is), scc_entry, scc_exit),
                       Tail(is), scc_entry, scc_exit)

\* a faulty variant of rewrite_entry: the arms of the While change places and
\* line 271 is lost
RewriteEntrySwapped(blocks, scc_nodes, scc_entry, scc_exit) ==
    LET nx == blocks[scc_entry].next
    IN  IF nx.tag = "IfElse" /\ nx.else_block = scc_exit
        THEN [bbs |-> [blocks EXCEPT ![scc_entry].next =
                                        While(nx.else_block, nx.if_block)],
              res |-> "Ok"]
        ELSE [bbs |-> [blocks EXCEPT ![scc_entry].unconditional_loop_entry = scc_exit],
              res |-> "Ok"]

\* a faulty variant of rewrite_entry: an if_block that is the exit of the
\* loop is refused as well
RewriteEntryStrict(blocks, scc_nodes, scc_entry, scc_exit) ==
    LET nx == blocks[scc_entry].next
    IN  IF nx.tag = "IfElse" /\ nx.if_block \notin Range(scc_nodes)
        THEN [bbs |-> blocks, res |-> "ErrEntryNotInScc"]
        ELSE IF nx.tag = "IfElse" /\ nx.else_block = scc_exit
        THEN [bbs |-> [blocks EXCEPT ![scc_entry].next =
                                        While(nx.if_block, nx.else_block)],
              res |-> "Ok"]
        ELSE [bbs |-> [blocks EXCEPT ![scc_entry].unconditional_loop_entry = scc_exit],
              res |-> "Ok"]

\* lines 264-306: the entry of the loop; res is the error of line 271, if any
rewrite_entry(blocks, scc_nodes, scc_entry, scc_exit) ==
    LET nx == blocks[scc_entry].next
    IN  IF nx.tag = "IfElse" /\ nx.if_block \notin Range(scc_nodes)
                             /\ nx.if_block # scc_exit
        THEN [bbs |-> blocks, res |-> "ErrEntryNotInScc"]
        ELSE IF nx.tag = "IfElse" /\ nx.else_block = scc_exit
        THEN [bbs |-> [blocks EXCEPT ![scc_entry].next =
                                        While(nx.if_block, nx.else_block)],
              res |-> "Ok"]
        ELSE [bbs |-> [blocks EXCEPT ![scc_entry].unconditional_loop_entry = scc_exit],
              res |-> "Ok"]

\* lines 131-308: one loop component, up to the append of the new blocks
reconstruct_scc(blocks, o, scc_nodes, scc_entries, scc_exits) ==
    LET scc_entry == IterIds(scc_entries, o)[1]
        scc_exit == choose_exit(blocks, o, scc_entry, scc_exits)
        rw == rewrite_nodes([bbs |-> blocks, new_blocks |-> <<>>,
                             next_block_idx |-> BLen(blocks),
                             dummy_break |-> <<>>, dummy_continue |-> <<>>],
                            scc_nodes, scc_entry, scc_exit)
        e == rewrite_entry(rw.bbs, scc_nodes, scc_entry, scc_exit)
    IN  [bbs |-> IF e.res = "Ok" THEN BAppend(e.bbs, rw.new_blocks) ELSE e.bbs,
         res |-> e.res,
         scc_entry |-> scc_entry,
         scc_exit |-> scc_exit,
         body_view |-> Range(scc_nodes) \ {scc_entry}]

(***************************************************************************)
(* loop_reconstruction.rs: loop_reconstruction_recursive                    *)
(* The result is [bbs, res, log]: the block array as the call leaves it,    *)
(* "Ok", the error returned, or "Panic" for an aborted call, and a log of   *)
(* the invocations that analysed a view (calls) and of the loop components  *)
(* they rewrote (loops), in the order of execution.                         *)
(***************************************************************************)
\* what the call knows of a loop component when it rewrites it: before and
\* after are the terminators of its nodes before and after the rewriting
loop_record(p, blocks, scc_nodes, scc_exits, view, start_idx) ==
    [entry |-> p.scc_entry, exit |-> p.scc_exit, nodes |-> Range(scc_nodes),
     exits |-> scc_exits, view |-> view, start |-> start_idx, res |-> p.res,
     len |-> BLen(blocks),
     before |-> [i \in Range(scc_nodes) |-> blocks[i].next],
     after |-> [i \in Range(scc_nodes) |-> p.bbs[i].next]]

\* what an invocation knows when it has computed the components of its view
call_record(blocks, view, start_idx, t, outcome) ==
    [view |-> view, start |-> start_idx, sccs |-> t.sccs, blocks |-> blocks,
     res |-> outcome]

LogLoop(log, r) == [log EXCEPT !.loops = Append(@, r)]

LogCall(log, r) == [log EXCEPT !.calls = Append(@, r)]

RECURSIVE loop_reconstruction_recursive(_, _, _, _, _)
RECURSIVE reconstruct_sccs(_, _, _, _, _, _, _, _, _)

\* line 313: after component i, stop at an error or go on with the next one
next_scc(r, o, t, entries, exits, i, view, start_idx) ==
    IF r.res # "Ok" THEN r
    ELSE reconstruct_sccs(r.bbs, o, t, entries, exits, i + 1, view, start_idx, r.log)

\* lines 310-312: the nested invocation for the body of the rewritten loop p
loop_body(p, o, log1) ==
    IF p.res = "Ok" /\ p.body_view # {}
    THEN loop_reconstruction_recursive(p.bbs, o, p.body_view, p.scc_entry, log1)
    ELSE [bbs |-> p.bbs, res |-> p.res, log |-> log1]

\* lines 131-312: component i, once rewritten as p
loop_scc(p, blocks, o, t, entries, exits, i, view, start_idx, log) ==
    next_scc(loop_body(p, o, LogLoop(log, loop_record(p, blocks, t.sccs[i],
                                                      exits[i - 1], view, start_idx))),
             o, t, entries, exits, i, view, start_idx)

\* lines 124-313: the loop over the components, from the i-th on
reconstruct_sccs(blocks, o, t, entries, exits, i, view, start_idx, log) ==
    IF i > Len(t.sccs) THEN [bbs |-> blocks, res |-> "Ok", log |-> log]
    ELSE IF ~is_loop(blocks, t.sccs[i])
    THEN reconstruct_sccs(blocks, o, t, entries, exits, i + 1, view, start_idx, log)
    ELSE loop_scc(reconstruct_scc(blocks, o, t.sccs[i], entries[i - 1], exits[i - 1]),
                  blocks, o, t, entries, exits, i, view, start_idx, log)

\* lines 67-120: the unwrap of line 75 and the validation of the components
precheck(blocks, current_view, start_idx, t, entries) ==
    IF \E r \in Roots(blocks, current_view, start_idx) : scc_for_node(t, r) = None
    THEN "Panic"
    ELSE validate(blocks, t, entries)

\* lines 84-313: after the checks, whose outcome is v
checked(blocks, o, current_view, start_idx, t, entries, exits, v, log1) ==
    IF v # "Ok" THEN [bbs |-> blocks, res |-> v, log |-> log1]
    ELSE reconstruct_sccs(blocks, o, t, entries, exits, 1, current_view, start_idx, log1)

\* lines 67-313: the checks of the invocation
with_check(blocks, o, current_view, start_idx, t, entries, exits, v, log) ==
    checked(blocks, o, current_view, start_idx, t, entries, exits, v,
            LogCall(log, call_record(blocks, current_view, start_idx, t, v)))

\* lines 67-313: with the entries and exits of the components of t
with_entries(blocks, o, current_view, start_idx, t, entries, exits, log) ==
    with_check(blocks, o, current_view, start_idx, t, entries, exits,
               precheck(blocks, current_view, start_idx, t, entries), log)

\* lines 32-313: with the components t of the restricted graph
with_scc(blocks, o, current_view, start_idx, t, log) ==
    with_entries(blocks, o, current_view, start_idx, t,
                 node_entries(blocks, current_view, t, start_idx),
                 node_exits(blocks, current_view, t), log)

\* lines 27-313: with the restricted graph g
with_graph(blocks, o, current_view, start_idx, g, log) ==
    IF g.nodes = {} THEN [bbs |-> blocks, res |-> "Ok", log |-> log]
    ELSE with_scc(blocks, o, current_view, start_idx, TarjanNew(g, o), log)

loop_reconstruction_recursive(blocks, o, current_view, start_idx, log) ==
    IF start_idx \notin DOMAIN blocks
    THEN [bbs |-> blocks, res |-> "Panic", log |-> log]
    ELSE with_graph(blocks, o, current_view, start_idx,
                    build_graph(blocks, current_view, start_idx), log)

loop_reconstruction(blocks, o) ==
    loop_reconstruction_recursive(blocks, o, DOMAIN blocks, 0,
                                  [loops |-> <<>>, calls |-> <<>>])

(***************************************************************************)
(* topo.rs: topo_sort_stable_usize                                          *)
(* edges, constraint_edges: functions over 0..n-1 to sequences of targets   *)
(* (Vec<Vec<usize>>); priority: function over 0..n-1.                       *)
(***************************************************************************)
\* lines 15-19, 23-27: sort, dedup, drop the self edge; what is left is
\* iterated in ascending order
normalize(e) == [idx \in DOMAIN e |-> Range(e[idx]) \ {idx}]

RECURSIVE reach_loop(_, _, _)

\* lines 35-42: the depth-first walk from vertex 0
reach_loop(E, visited, stack) ==
    IF stack = <<>> THEN visited
    ELSE LET idx == stack[Len(stack)]
             new == SortedSeq(E[idx] \ visited)
         IN  reach_loop(E, visited \cup E[idx], SubSeq(stack, 1, Len(stack) - 1) \o new)

reachable_vertices(E) == reach_loop(E, {0}, <<0>>)

\* lines 51-65: the reverse edges
reverse_edges(E) == [v \in DOMAIN E |-> {u \in DOMAIN E : v \in E[u]}]

\* the order of the BTreeSet<(usize, usize)> keys (priority, vertex)
KeyLess(priority, v, w) ==
    \/ priority[v] < priority[w]
    \/ priority[v] = priority[w] /\ v < w

\* a faulty variant of FirstKey: the smallest vertex id, whatever the priority
FirstId(S, priority) == CHOOSE v \in S : \A w \in S : v <= w

FirstKey(S, priority) == CHOOSE v \in S : \A w \in S \ {v} : KeyLess(priority, v, w)

\* a faulty variant of check: the constraint predecessors are not consulted
CheckOrdinaryOnly(st, v) ==
    IF v \notin st.queued /\ st.redge[v] = {}
    THEN [st EXCEPT !.queue = @ \cup {v}, !.queued = @ \cup {v}]
    ELSE st

\* lines 81-90: the closure check
check(st, v) ==
    IF v \notin st.queued /\ st.redge[v] = {} /\ st.constraint_redge[v] = {}
    THEN [st EXCEPT !.queue = @ \cup {v}, !.queued = @ \cup {v}]
    ELSE st

RECURSIVE release_edges(_, _, _), release_constraints(_, _, _)

\* lines 97-100
release_edges(st, v, nexts) ==
    IF nexts = <<>> THEN st
    ELSE release_edges(check([st EXCEPT !.redge[Head(nexts)] = @ \ {v}], Head(nexts)),
                       v, Tail(nexts))

\* lines 101-104
release_constraints(st, v, nexts) ==
    IF nexts = <<>> THEN st
    ELSE release_constraints(
             check([st EXCEPT !.constraint_redge[Head(nexts)] = @ \ {v}], Head(nexts)),
             v, Tail(nexts))

RECURSIVE drain(_, _, _, _)

\* lines 93-105: emit the ready vertices, smallest (priority, vertex) first
drain(st, E, C, priority) ==
    IF st.queue = {} THEN st
    ELSE LET v == FirstKey(st.queue, priority)
             s1 == [st EXCEPT !.remain = @ \ {v}, !.queue = @ \ {v},
                              !.result = Append(@, v)]
             s2 == release_edges(s1, v, SortedSeq(E[v]))
             s3 == release_constraints(s2, v, SortedSeq(C[v]))
         IN  drain(s3, E, C, priority)

\* lines 111-119: the smallest remaining vertex with no constraint predecessor
force_candidates(st) == {v \in st.remain : st.constraint_redge[v] = {}}

\* what the sort knows when lines 121-123 force vertex v: the vertices still
\* to place, those of them without a constraint predecessor, and the
\* priorities that key the BTreeSet
forced_record(st, v, priority) ==
    [v |-> v, remain |-> st.remain, candidates |-> force_candidates(st),
     priority |-> priority]

RECURSIVE sort_loop(_, _, _, _)

\* lines 92-127
sort_loop(st, E, C, priority) ==
    LET s1 == drain(st, E, C, priority)
    IN  IF s1.remain = {} THEN [res |-> "Ok", order |-> s1.result, forced |-> s1.forced]
        ELSE IF force_candidates(s1) = {}
        THEN [res |-> "ErrConstraintCycle", order |-> <<>>, forced |-> s1.forced]
        ELSE LET v == FirstKey(force_candidates(s1), priority)
             IN  sort_loop([s1 EXCEPT !.queue = @ \cup {v}, !.queued = @ \cup {v},
                                      !.forced = Append(@, forced_record(s1, v, priority))],
                           E, C, priority)

\* lines 67-79: the state before the main loop
sort_init(E, C) ==
    LET reach == reachable_vertices(E)
        redge == reverse_edges(E)
        ready == {v \in reach : redge[v] = {}}
    IN  [result |-> <<>>, queue |-> ready, queued |-> ready, redge |-> redge,
         constraint_redge |-> reverse_edges(C), remain |-> reach, forced |-> <<>>]

\* an index past the end of a vector aborts the call
sort_in_bounds(raw_edges, cedges) ==
    /\ 0 \in DOMAIN raw_edges
    /\ \A i \in DOMAIN raw_edges : Range(raw_edges[i]) \subseteq DOMAIN raw_edges
    /\ \A i \in DOMAIN cedges : Range(cedges[i]) \subseteq DOMAIN raw_edges

topo_sort_stable_usize(raw_edges, cedges, priority) ==
    IF ~sort_in_bounds(raw_edges, cedges)
    THEN [res |-> "Panic", order |-> <<>>, forced |-> <<>>]
    ELSE sort_loop(sort_init(normalize(raw_edges), normalize(cedges)),
                   normalize(raw_edges), normalize(cedges), priority)

(***************************************************************************)
(* topo.rs: topo_sort                                                       *)
(* debug is cfg!(debug_assertions): an arithmetic overflow aborts a debug   *)
(* build and wraps in a release build.                                      *)
(***************************************************************************)
Wrap(x) == x % (UsizeMax + 1)

\* lines 140-144
max_block_offset(blocks) ==
    IF DOMAIN blocks = {} THEN 0
    ELSE LET i == CHOOSE x \in DOMAIN blocks :
                     \A y \in DOMAIN blocks : blocks[y].offset <= blocks[x].offset
         IN  blocks[i].offset

\* lines 146-153
block_priority(block, max_off) ==
    IF block.topo_priority # None THEN block.topo_priority
    ELSE IF block.offset # UsizeMax THEN Wrap(block.idx * 100000 + 1)
    ELSE Wrap(Wrap(Wrap(UsizeMax - max_off) - 1) + block.offset)

\* the arithmetic of lines 149 and 152 leaves the range of usize
priority_overflows(block, max_off) ==
    /\ block.topo_priority = None
    /\ IF block.offset # UsizeMax THEN block.idx * 100000 + 1 > UsizeMax
       ELSE \/ UsizeMax - max_off - 1 < 0
            \/ UsizeMax - max_off - 1 + block.offset > UsizeMax

\* lines 154-176: the targets block idx pushes on its own edge list
topo_targets(next) ==
    CASE next.tag = "IfElse" -> <<next.if_block, next.else_block>>
      [] next.tag \in {"Break", "Continue", "Branch"} -> <<next.target>>
      [] next.tag = "While" -> <<next.inner_block, next.outer_block>>
      [] OTHER -> <<>>

\* line 173: the edges inner_block -> outer_block of the While blocks
while_edges(blocks, i) ==
    LET ws == {j \in DOMAIN blocks :
                  blocks[j].next.tag = "While" /\ blocks[j].next.inner_block = i}
    IN  [k \in 1..Cardinality(ws) |-> blocks[SortedSeq(ws)[k]].next.outer_block]

block_edges(blocks) ==
    [i \in DOMAIN blocks |-> topo_targets(blocks[i].next) \o while_edges(blocks, i)]

\* a faulty variant of block_constraint_edges: topo_after is ignored
ConstraintEdgesBeforeOnly(blocks) ==
    [i \in DOMAIN blocks |-> SortedSeq({x \in blocks[i].topo_before : x < BLen(blocks)})]

\* lines 193-198
block_constraint_edges(blocks) ==
    [i \in DOMAIN blocks |->
        SortedSeq({x \in blocks[i].topo_before : x < BLen(blocks)})
          \o SortedSeq({j \in DOMAIN blocks : i \in blocks[j].topo_after})]

\* lines 145-192: what stops the loop over the blocks at block i
block_fault(blocks, i, debug) ==
    IF debug /\ priority_overflows(blocks[i], max_block_offset(blocks)) THEN "Panic"
    ELSE IF blocks[i].next.tag = "Normal" THEN "ErrUnsupportedTerminator"
    ELSE IF blocks[i].next.tag = "While" /\ blocks[i].next.inner_block \notin DOMAIN blocks
    THEN "Panic"
    ELSE "Ok"

\* lines 202-208
rorder_of(blocks, order) ==
    [x \in DOMAIN blocks |->
        IF \E k \in 1..Len(order) : order[k] = x
        THEN (CHOOSE k \in 1..Len(order) : order[k] = x) - 1
        ELSE 0]

\* a faulty variant of remap_next: the targets keep their old indices
RorderIdentity(next, rorder) == next

\* lines 214-241
remap_next(next, rorder) ==
    CASE next.tag = "IfElse" -> IfElse(rorder[next.if_block], rorder[next.else_block])
      [] next.tag = "While" -> While(rorder[next.inner_block], rorder[next.outer_block])
      [] next.tag = "Branch" -> Branch(rorder[next.target])
      [] next.tag = "Break" -> Break(rorder[next.target])
      [] next.tag = "Continue" -> Continue(rorder[next.target])
      [] OTHER -> next

\* lines 211-256: the block placed at position idx
remap_block(block, idx, rorder) ==
    [block EXCEPT !.idx = idx,
                  !.next = remap_next(block.next, rorder),
                  !.topo_after = {rorder[x] : x \in block.topo_after},
                  !.topo_before = {rorder[x] : x \in block.topo_before},
                  !.unconditional_loop_entry =
                      IF @ # None THEN rorder[@] ELSE None]

\* the indices block reads in rorder (lines 242-254) are inside the vector
remap_in_bounds(block, n) ==
    /\ \A x \in block.topo_after \cup block.topo_before : x < n
    /\ block.unconditional_loop_entry # None => block.unconditional_loop_entry < n

\* the build profiles that can tell an array apart: topo_sort reads debug
\* only when a priority overflows
BuildProfiles(blocks) ==
    IF \E i \in DOMAIN blocks : priority_overflows(blocks[i], max_block_offset(blocks))
    THEN BOOLEAN ELSE {TRUE}

topo_sort(blocks, debug) ==
    LET n == BLen(blocks)
        faults == {i \in DOMAIN blocks : block_fault(blocks, i, debug) # "Ok"}
        max_off == max_block_offset(blocks)
        priority == [i \in DOMAIN blocks |-> block_priority(blocks[i], max_off)]
    IN  IF faults # {}
        THEN [res |-> block_fault(blocks, CHOOSE i \in faults : \A j \in faults : i <= j,
                                  debug),
              blocks |-> <<>>, order |-> <<>>, forced |-> <<>>]
        ELSE LET r == topo_sort_stable_usize(block_edges(blocks),
                                             block_constraint_edges(blocks), priority)
             IN  IF r.res # "Ok"
                 THEN [res |-> r.res, blocks |-> <<>>, order |-> <<>>, forced |-> r.forced]
                 ELSE IF \E k \in 1..Len(r.order) : ~remap_in_bounds(blocks[r.order[k]], n)
                 THEN [res |-> "Panic", blocks |-> <<>>, order |-> <<>>, forced |-> r.forced]
                 ELSE [res |-> "Ok", order |-> r.order, forced |-> r.forced,
                       blocks |-> [idx \in 0..(Len(r.order) - 1) |->
                                      remap_block(blocks[r.order[idx + 1]], idx,
                                                  rorder_of(blocks, r.order))]]

(***************************************************************************)
(* Specification Spec: the structuring pipeline.  The CFG builder hands     *)
(* over an array of blocks with resolved targets (Ret, Branch, IfElse),     *)
(* loop_reconstruction structures it in place and topo_sort linearises the  *)
(* result.                                                                  *)
(***************************************************************************)
\* the raw terminators of an array of n blocks
RawTerminators(n) ==
    {Ret} \cup {Branch(t) : t \in 0..(n - 1)}
          \cup {IfElse(a, b) : a \in 0..(n - 1), b \in 0..(n - 1)}

\* block i of the input: idx is its position, offsets grow with the position
RawBlock(i, next) == [DefaultBlock EXCEPT !.idx = i, !.offset = i, !.next = next]

RawArray(f) == [i \in DOMAIN f |-> RawBlock(i, f[i])]

\* the hash orders of the model: the ids of n blocks, ascending and descending
HashOrders(n) == {[i \in 1..n |-> i - 1], [i \in 1..n |-> n - i]}

IfElseCount(f) == Cardinality({i \in DOMAIN f : f[i].tag = "IfElse"})

Init ==
    /\ pc = "input"
    /\ ord = <<>>
    /\ nodes = {}
    /\ graph = <<>>
    /\ tarjan = TarjanInit
    /\ \E n \in 0..MaxBlocks : \E f \in [0..(n - 1) -> RawTerminators(n)] :
          /\ IfElseCount(f) <= MaxIfElse
          /\ bbs0 = RawArray(f)
          /\ bbs = RawArray(f)
    /\ res = "none"
    /\ loops = <<>>
    /\ calls = <<>>
    /\ sorted = <<>>
    /\ sres = "none"
    /\ sorder = <<>>
    /\ sforced = <<>>
    /\ adata = <<>>
    /\ oplog = <<>>
    /\ acall = <<>>

LoopReconstruction ==
    /\ pc = "input"
    /\ \E o \in HashOrders(BLen(bbs)) :
          LET r == loop_reconstruction(bbs, o)
          IN  /\ bbs' = r.bbs
              /\ res' = r.res
              /\ loops' = r.log.loops
              /\ calls' = r.log.calls
    /\ pc' = "structured"
    /\ UNCHANGED <<ord, nodes, graph, tarjan, bbs0, sorted, sres, sorder, sforced, adata, oplog, acall>>

TopoSort ==
    /\ pc = "structured"
    /\ res = "Ok"
    /\ \E debug \in BuildProfiles(bbs) :
          LET r == topo_sort(bbs, debug)
          IN  /\ sorted' = r.blocks
              /\ sres' = r.res
              /\ sorder' = r.order
              /\ sforced' = r.forced
    /\ pc' = "sorted"
    /\ UNCHANGED <<ord, nodes, graph, tarjan, bbs0, bbs, res, loops, calls, adata, oplog, acall>>

Next == LoopReconstruction \/ TopoSort

Spec == Init /\ [][Next]_vars

(***************************************************************************)
(* The pre-structuring graph: the array handed to loop_reconstruction.      *)
(***************************************************************************)
Succ0(u) == NextSet(bbs0[u].next)

RECURSIVE Closure0(_)
Closure0(S) ==
    LET T == S \cup UNION {Succ0(x) : x \in S}
    IN  IF T = S THEN S ELSE Closure0(T)

\* the blocks reachable from the entry block 0
Reach0 == IF 0 \in DOMAIN bbs0 THEN Closure0({0}) ELSE {}

Structured == pc # "input"

\* the loop components whose rewriting was completed
LoopsDone == {k \in DOMAIN loops : loops[k].res = "Ok"}

\* the reachable blocks outside the component of loop record L that target v
ExternalSources(L, v) == {u \in Reach0 \ L.nodes : v \in Succ0(u)}

\* the nodes of the component that are entered from outside it; the function
\* entry, block 0, is entered by the caller
EntryNodes0(L) ==
    {v \in L.nodes : ExternalSources(L, v) # {}} \cup (L.nodes \cap {0})

(***************************************************************************)
(* C2                                                                       *)
(***************************************************************************)
\* C2 as stated: when loop_reconstruction succeeds, every While entry is
\* reached from outside its loop component through exactly one edge.
WhileSingleEntryEdge ==
    (Structured /\ res = "Ok") =>
      \A k \in DOMAIN loops :
         bbs[loops[k].entry].next.tag = "While" =>
           Cardinality(ExternalSources(loops[k], loops[k].entry))
             + (IF loops[k].entry = 0 THEN 1 ELSE 0) = 1

\* C2 as amended: when loop_reconstruction succeeds, every loop component it
\* structured has exactly one entry node: every edge of the pre-structuring
\* graph that enters the component from a reachable block outside it targets
\* the loop entry, however many such edges there are.
LoopSingleEntryNode ==
    (Structured /\ res = "Ok") =>
      \A k \in DOMAIN loops : EntryNodes0(loops[k]) = {loops[k].entry}

\* a structured While loop whose entry is targeted by two blocks outside it
LoopSingleEntryNodeWitness ==
    /\ Structured /\ res = "Ok"
    /\ \E k \in DOMAIN loops :
          /\ bbs[loops[k].entry].next.tag = "While"
          /\ Cardinality(ExternalSources(loops[k], loops[k].entry)) = 2
          /\ Cardinality(loops[k].nodes) > 1

(***************************************************************************)
(* C4                                                                       *)
(***************************************************************************)
\* the block a Break/Continue belongs to: itself, or for a synthetic block
\* the block whose arm it stands on
Origin(i) ==
    IF i \in DOMAIN bbs0 THEN i ELSE CHOOSE b \in bbs[i].topo_after : TRUE

\* t was an exit of the component of L in the pre-structuring graph
IsExit0(L, t) ==
    /\ t \in DOMAIN bbs0
    /\ t \notin L.nodes
    /\ \E u \in L.nodes : t \in Succ0(u)

\* C4 as stated: after loop_reconstruction every Break targets a block that
\* was an exit of its enclosing loop component in the pre-structuring graph,
\* and every Continue targets the entry of its enclosing loop component.
BreakContinueSound ==
    (Structured /\ res = "Ok") =>
      \A i \in DOMAIN bbs :
         /\ bbs[i].next.tag = "Break" =>
               \E k \in DOMAIN loops :
                  /\ Origin(i) \in loops[k].nodes
                  /\ IsExit0(loops[k], bbs[i].next.target)
         /\ bbs[i].next.tag = "Continue" =>
               \E k \in DOMAIN loops :
                  /\ Origin(i) \in loops[k].nodes
                  /\ bbs[i].next.target = loops[k].entry

\* a block appended by loop_reconstruction
IsSynthetic(i) == i \in DOMAIN bbs /\ i \notin DOMAIN bbs0 /\ bbs[i].offset = UsizeMax

\* C4 as amended: a Break targets the chosen exit of an enclosing loop
\* component, a block outside the component that was targeted from inside it
\* when the component was rewritten: an exit of the component in the
\* pre-structuring graph, or a synthetic block standing on an arm of one of
\* its blocks (created for an enclosing loop).  A Continue targets the entry
\* of an enclosing loop component.
BreakContinueTargets ==
    (Structured /\ res = "Ok") =>
      \A i \in DOMAIN bbs :
         /\ bbs[i].next.tag = "Break" =>
               \E k \in DOMAIN loops :
                  LET L == loops[k]
                      t == bbs[i].next.target
                  IN  /\ Origin(i) \in L.nodes
                      /\ t = L.exit /\ t \in L.exits /\ t \notin L.nodes
                      /\ \/ IsExit0(L, t)
                         \/ IsSynthetic(t) /\ Origin(t) \in L.nodes
         /\ bbs[i].next.tag = "Continue" =>
               \E k \in DOMAIN loops :
                  /\ Origin(i) \in loops[k].nodes
                  /\ bbs[i].next.target = loops[k].entry
                  /\ EntryNodes0(loops[k]) = {loops[k].entry}

\* an inner loop left by a Break whose target is a synthetic block of the
\* outer loop, in an array that also holds a Continue of an original block
BreakContinueTargetsWitness ==
    /\ Structured /\ res = "Ok"
    /\ \E i, c \in DOMAIN bbs :
          /\ bbs[i].next.tag = "Break" /\ IsSynthetic(bbs[i].next.target)
          /\ bbs[c].next.tag = "Continue" /\ c \in DOMAIN bbs0

(***************************************************************************)
(* C5                                                                       *)
(***************************************************************************)
\* no reachable block lies on a cycle: only trivial, non-self-looping
\* singleton components
NoLoopComponents == \A u \in Reach0 : u \notin Closure0(Succ0(u))

\* C5: loop_reconstruction over an array without loop components appends no
\* block, changes no terminator and sets no unconditional_loop_entry, and
\* (the array not being empty) returns Ok.
StructuredIsNoOp ==
    (Structured /\ NoLoopComponents) =>
      /\ bbs = bbs0
      /\ loops = <<>>
      /\ bbs0 # <<>> => res = "Ok"

\* a loop-free array with a diamond: both arms of block 0 meet in block 3
StructuredIsNoOpWitness ==
    /\ Structured /\ NoLoopComponents
    /\ Reach0 = 0..3
    /\ bbs0[0].next.tag = "IfElse"
    /\ bbs0[0].next.if_block # bbs0[0].next.else_block
    /\ bbs0[1].next = Branch(3) /\ bbs0[2].next = Branch(3)
    /\ bbs = bbs0

(***************************************************************************)
(* C6                                                                       *)
(***************************************************************************)
\* an array of raw blocks, from the sequence of their terminators
FromSeq(s) == RawArray([i \in 0..(Len(s) - 1) |-> s[i + 1]])

SimpleLoop == FromSeq(<<IfElse(1, 2), Branch(0), Ret>>)

\* C6: a loop component whose entry is IfElse{if_block in the component,
\* else_block = the chosen exit} gets the entry While{if_block, else_block},
\* and every Branch of the component to the entry becomes Continue{entry};
\* [0: IfElse{1,2}, 1: Branch{0}, 2: Ret] becomes While{1,2}, Continue{0}, Ret.
NaturalLoopBecomesWhile ==
    Structured =>
      /\ \A k \in DOMAIN loops :
            LET L == loops[k]
                e == L.before[L.entry]
            IN  (e.tag = "IfElse" /\ e.if_block \in L.nodes /\ e.else_block = L.exit) =>
                  /\ L.res = "Ok"
                  /\ bbs[L.entry].next = While(e.if_block, e.else_block)
                  /\ \A i \in L.nodes :
                        L.before[i] = Branch(L.entry) => bbs[i].next = Continue(L.entry)
      /\ bbs0 = SimpleLoop =>
            /\ res = "Ok"
            /\ BLen(bbs) = 3
            /\ bbs[0].next = While(1, 2)
            /\ bbs[1].next = Continue(0)
            /\ bbs[2] = bbs0[2]

\* a natural loop nested in another loop, with a Branch back to its entry
NaturalLoopBecomesWhileWitness ==
    /\ Structured
    /\ \E k \in DOMAIN loops :
          LET L == loops[k]
              e == L.before[L.entry]
          IN  /\ e.tag = "IfElse" /\ e.if_block \in L.nodes /\ e.else_block = L.exit
              /\ L.start \notin L.view
              /\ \E i \in L.nodes : L.before[i] = Branch(L.entry)

(***************************************************************************)
(* C7                                                                       *)
(***************************************************************************)
NestedExit == FromSeq(<<IfElse(1, 3), IfElse(2, 3), Branch(0), Ret>>)

\* the arm x of block i of loop L has become y
ArmRedirected(L, i, x, y) ==
    /\ x \notin {L.entry, L.exit} => y = x
    /\ x \in {L.entry, L.exit} =>
          /\ y >= L.len /\ y \in DOMAIN bbs
          /\ bbs[y].idx = y
          /\ bbs[y].offset = UsizeMax
          /\ bbs[y].topo_after = {i}
          /\ bbs[y].next = IF x = L.entry THEN Continue(x) ELSE Break(x)

\* C7: when a loop component is rewritten, every IfElse block of it other
\* than the entry is left an IfElse; an arm to the entry (the chosen exit)
\* goes to a block appended by this rewriting, whose terminator is
\* Continue{entry} (Break{exit}) and which stands after the originating block
\* only; two arms of one block to the same target share the block.  In
\* [0: IfElse{1,3}, 1: IfElse{2,3}, 2: Branch{0}, 3: Ret] the arm 1 -> 3 goes
\* to block 4 = Break{3} while the entry keeps its own exit edge 0 -> 3.
DummyBlocksPerArm ==
    Structured =>
      /\ \A k \in DOMAIN loops :
            LET L == loops[k]
            IN  L.res = "Ok" =>
                  \A i \in L.nodes \ {L.entry} :
                     L.before[i].tag = "IfElse" =>
                        LET b == L.before[i]
                            a == L.after[i]
                        IN  /\ a.tag = "IfElse"
                            /\ ArmRedirected(L, i, b.if_block, a.if_block)
                            /\ ArmRedirected(L, i, b.else_block, a.else_block)
                            /\ b.if_block = b.else_block => a.if_block = a.else_block
      /\ bbs0 = NestedExit =>
            /\ res = "Ok"
            /\ BLen(bbs) = 5
            /\ bbs[0].next = While(1, 3)
            /\ bbs[1].next = IfElse(2, 4)
            /\ bbs[4].next = Break(3)
            /\ bbs[2].next = Continue(0)

\* a loop with a block both of whose arms target the entry and a block with
\* an arm to the chosen exit
DummyBlocksPerArmWitness ==
    /\ Structured /\ res = "Ok"
    /\ \E k \in DOMAIN loops :
          LET L == loops[k]
          IN  \E i, j \in L.nodes \ {L.entry} :
                 /\ L.before[i] = IfElse(L.entry, L.entry)
                 /\ L.after[i].if_block >= L.len
                 /\ L.before[j].tag = "IfElse"
                 /\ L.exit \in NextSet(L.before[j])
                 /\ \E y \in NextSet(L.after[j]) : y >= L.len /\ bbs[y].next = Break(L.exit)

(***************************************************************************)
(* C8                                                                       *)
(***************************************************************************)
\* the blocks of an invocation's graph: the members of its components
CallNodes(C) == UNION {Range(C.sccs[j]) : j \in DOMAIN C.sccs}

\* the start node of the view, or the in-view successors of an outside start
CallRoots(C) ==
    IF C.start \in C.view THEN {C.start}
    ELSE NextSet(C.blocks[C.start].next) \cap C.view

CallEntryNodes(C, K) ==
    {v \in K : \E u \in CallNodes(C) \ K : v \in NextSet(C.blocks[u].next)}
       \cup (K \cap CallRoots(C))

IsLoopComponent(C, K) ==
    Cardinality(K) > 1 \/ \E v \in K : v \in NextSet(C.blocks[v].next)

\* C8: an invocation that meets a loop component with more than one entry
\* node returns "Found SCC with multiple entries", the run fails with it, and
\* the blocks of the component stay as the invocation found them.
MultipleEntriesRejected ==
    Structured =>
      \A c \in DOMAIN calls :
         \A j \in DOMAIN calls[c].sccs :
            LET C == calls[c]
                K == Range(C.sccs[j])
            IN  (IsLoopComponent(C, K) /\ Cardinality(CallEntryNodes(C, K)) > 1) =>
                  /\ C.res = "ErrMultipleEntries"
                  /\ res = "ErrMultipleEntries"
                  /\ \A i \in K : bbs[i] = C.blocks[i]

\* the arrays of DeepBlocks blocks that start with the loop header
\* 0: IfElse{1,2} and its one-block arm 1: Branch{0}
DeepBlocks == 5

InitDeep ==
    /\ pc = "input"
    /\ ord = <<>>
    /\ nodes = {}
    /\ graph = <<>>
    /\ tarjan = TarjanInit
    /\ \E t2, t3, t4 \in RawTerminators(DeepBlocks) :
          LET f == [i \in 0..(DeepBlocks - 1) |->
                       CASE i = 0 -> IfElse(1, 2)
                         [] i = 1 -> Branch(0)
                         [] i = 2 -> t2
                         [] i = 3 -> t3
                         [] OTHER -> t4]
          IN  /\ IfElseCount(f) <= MaxIfElse + 1
              /\ bbs0 = RawArray(f)
              /\ bbs = RawArray(f)
    /\ res = "none"
    /\ loops = <<>>
    /\ calls = <<>>
    /\ sorted = <<>>
    /\ sres = "none"
    /\ sorder = <<>>
    /\ sforced = <<>>
    /\ adata = <<>>
    /\ oplog = <<>>
    /\ acall = <<>>

SpecDeep == InitDeep /\ [][Next]_vars

(***************************************************************************)
(* Specification SpecTopo: topo_sort over arrays assembled by hand.  An     *)
(* array of Ret blocks is decorated with terminators, ordering constraints, *)
(* descending offsets and synthetic marks and then sorted.                  *)
(***************************************************************************)
MaxTopoBlocks == 3

MaxDecorations == 3

\* the terminators topo_sort can meet in an array of n blocks
TopoTerminators(n) ==
    {Ret, Abort, Normal}
       \cup {Branch(t) : t \in 0..(n - 1)}
       \cup {Break(t) : t \in 0..(n - 1)}
       \cup {Continue(t) : t \in 0..(n - 1)}
       \cup {IfElse(a, b) : a \in 0..(n - 1), b \in 0..(n - 1)}
       \cup {While(a, b) : a \in 0..(n - 1), b \in 0..(n - 1)}

\* how far an array is from an array of plain Ret blocks
Decor(b) ==
    (IF b.next # Ret THEN 1 ELSE 0) + Cardinality(b.topo_before)
       + Cardinality(b.topo_after) + (IF b.topo_priority # None THEN 1 ELSE 0)

RECURSIVE DecorUpTo(_, _)

DecorUpTo(blocks, n) ==
    IF n = 0 THEN 0 ELSE Decor(blocks[n - 1]) + DecorUpTo(blocks, n - 1)

\* the offsets of the original blocks no longer grow with the position
Reversed(blocks) == \E i \in DOMAIN blocks : blocks[i].offset \notin {i, UsizeMax}

Decorations(blocks) ==
    DecorUpTo(blocks, BLen(blocks)) + (IF Reversed(blocks) THEN 1 ELSE 0)

InitTopo ==
    /\ pc = "edit"
    /\ ord = <<>>
    /\ nodes = {}
    /\ graph = <<>>
    /\ tarjan = TarjanInit
    /\ \E n \in 0..MaxTopoBlocks :
          /\ bbs0 = [i \in 0..(n - 1) |-> RawBlock(i, Ret)]
          /\ bbs = [i \in 0..(n - 1) |-> RawBlock(i, Ret)]
    /\ res = "none"
    /\ loops = <<>>
    /\ calls = <<>>
    /\ sorted = <<>>
    /\ sres = "none"
    /\ sorder = <<>>
    /\ sforced = <<>>
    /\ adata = <<>>
    /\ oplog = <<>>
    /\ acall = <<>>

Decorate(blocks) ==
    /\ pc = "edit"
    /\ Decorations(blocks) <= MaxDecorations
    /\ blocks # bbs
    /\ bbs' = blocks
    /\ UNCHANGED <<pc, ord, nodes, graph, tarjan, bbs0, res, loops, calls, sorted, sres, sorder, sforced, adata, oplog, acall>>

\* a block gets its terminator once
SetNext ==
    \E i \in DOMAIN bbs : \E t \in TopoTerminators(BLen(bbs)) :
       /\ bbs[i].next = Ret
       /\ Decorate([bbs EXCEPT ![i].next = t])

AddBefore ==
    \E i \in DOMAIN bbs : \E x \in DOMAIN bbs \cup {UsizeMax} :
       Decorate([bbs EXCEPT ![i].topo_before = @ \cup {x}])

AddAfter ==
    \E i \in DOMAIN bbs : \E x \in DOMAIN bbs :
       Decorate([bbs EXCEPT ![i].topo_after = @ \cup {x}])

\* the original blocks get descending offsets
ReverseOffsets ==
    /\ ~Reversed(bbs)
    /\ Decorate([i \in DOMAIN bbs |->
                    IF bbs[i].offset = UsizeMax THEN bbs[i]
                    ELSE [bbs[i] EXCEPT !.offset = BLen(bbs) - 1 - i]])

\* the marks loop reconstruction puts on a block it creates
MakeSynthetic ==
    \E i \in DOMAIN bbs :
       Decorate([bbs EXCEPT ![i].offset = UsizeMax, ![i].topo_priority = 0])

SortDecorated ==
    /\ pc = "edit"
    /\ \E debug \in BuildProfiles(bbs) :
          LET r == topo_sort(bbs, debug)
          IN  /\ sorted' = r.blocks
              /\ sres' = r.res
              /\ sorder' = r.order
              /\ sforced' = r.forced
    /\ pc' = "sorted"
    /\ UNCHANGED <<ord, nodes, graph, tarjan, bbs0, bbs, res, loops, calls, adata, oplog, acall>>

NextTopo ==
    SetNext \/ AddBefore \/ AddAfter \/ ReverseOffsets \/ MakeSynthetic \/ SortDecorated

SpecTopo == InitTopo /\ [][NextTopo]_vars

(***************************************************************************)
(* C3                                                                       *)
(***************************************************************************)
Sorted == pc = "sorted"

TargetsOf(b) == Range(topo_targets(b.next)) \cup b.topo_before \cup b.topo_after

\* C3: when topo_sort returns Ok, every terminator target, every
\* topo_before/topo_after member and every idx of the returned array is an
\* index into it, and block i of it has idx = i.
SortedIndexIntegrity ==
    (Sorted /\ sres = "Ok") =>
      /\ DOMAIN sorted = 0..(BLen(sorted) - 1)
      /\ \A i \in DOMAIN sorted :
            /\ sorted[i].idx = i
            /\ TargetsOf(sorted[i]) \subseteq DOMAIN sorted

\* a sorted array that is not in the input order and carries targets and
\* ordering constraints
SortedIndexIntegrityWitness ==
    /\ Sorted /\ sres = "Ok"
    /\ BLen(sorted) = 3
    /\ \E i \in DOMAIN sorted : sorted[i].offset # bbs[i].offset
    /\ \E i, j \in DOMAIN sorted :
          topo_targets(sorted[i].next) # <<>> /\ sorted[j].topo_before # {}

(***************************************************************************)
(* C9                                                                       *)
(***************************************************************************)
\* the ordering constraints of the array say a comes before b
Declares(blocks, a, b) ==
    b \in blocks[a].topo_before \/ a \in blocks[b].topo_after

Errors == {"ErrMultipleEntries", "ErrDeadBlock", "ErrEntryNotInScc"}

\* C10: when loop_reconstruction returns an error the block array is the
\* input array: nothing appended, no terminator rewritten, no
\* unconditional_loop_entry set.
ErrorLeavesInputIntact ==
    (Structured /\ res \in Errors) => bbs = bbs0

(***************************************************************************)
(* C11                                                                      *)
(***************************************************************************)
\* the vertices of the returned order and their positions in it
Emitted == Range(sorder)

Pos(v) == CHOOSE k \in 1..Len(sorder) : sorder[k] = v

\* C11: in every order topo_sort returns, for every constraint edge a -> b
\* (b in a's topo_before or a in b's topo_after, a # b) whose endpoints are
\* both emitted, a is placed before b.
ConstraintEdgesRespected ==
    (Sorted /\ sres = "Ok") =>
       \A a, b \in DOMAIN bbs :
          (a # b /\ Declares(bbs, a, b) /\ {a, b} \subseteq Emitted) => Pos(a) < Pos(b)

(***************************************************************************)
(* C12                                                                      *)
(***************************************************************************)
\* the control-flow successors and the constraint successors of block u in
\* the array handed to topo_sort
FlowSucc(u) == Range(block_edges(bbs)[u]) \ {u}

ConstraintSucc(u) == {b \in DOMAIN bbs : b # u /\ Declares(bbs, u, b)}

RECURSIVE FlowClosure(_)
FlowClosure(S) ==
    LET T == S \cup UNION {FlowSucc(x) : x \in S}
    IN  IF T = S THEN S ELSE FlowClosure(T)

\* the blocks reachable from index 0
FlowReach == IF 0 \in DOMAIN bbs THEN FlowClosure({0}) ELSE {}

RECURSIVE ConstraintClosure(_)
ConstraintClosure(S) ==
    LET T == S \cup UNION {ConstraintSucc(x) \cap FlowReach : x \in S}
    IN  IF T = S THEN S ELSE ConstraintClosure(T)

\* the constraint edges among the reachable blocks contain a cycle
ConstraintCycle ==
    \E a \in FlowReach : a \in ConstraintClosure(ConstraintSucc(a) \cap FlowReach)

NoUnsupportedTerminator == \A i \in DOMAIN bbs : bbs[i].next.tag # "Normal"

\* C12: when the constraint edges among the blocks reachable from index 0
\* contain a cycle, topo_sort fails with "cycle detected in constraint
\* graph" and returns no order.
ConstraintCycleRejected ==
    (Sorted /\ NoUnsupportedTerminator /\ ConstraintCycle)
       => (sres = "ErrConstraintCycle" /\ sorder = <<>> /\ sorted = <<>>)

(***************************************************************************)
(* aggregator_extension.rs: Aggregator                                      *)
(* An aggregator is a record [value, state, limit, history]; a u128 is a    *)
(* natural number (no operation of the file can leave the range: every      *)
(* sum is checked against limit first).  A fallible call returns            *)
(* [res, agg] with res "Ok", "Err" (PartialVMError) or "Panic".             *)
(***************************************************************************)
NoHistory == [tag |-> "None"]

\* lines 86-91
HistoryNew == [tag |-> "Some", max_positive |-> 0, min_negative |-> 0]

Max(a, b) == IF a >= b THEN a ELSE b

\* delta_change_set::addition(base, value, limit): Err when the sum exceeds
\* limit (lines 136-139: 60 + 100 > 150 fails, 30 + 100 passes)
addition(base, value, limit) ==
    IF base + value > limit THEN [res |-> "Err", value |-> 0]
    ELSE [res |-> "Ok", value |-> base + value]

\* delta_change_set::subtraction(base, value): Err when value exceeds base
subtraction(base, value) ==
    IF value > base THEN [res |-> "Err", value |-> 0]
    ELSE [res |-> "Ok", value |-> base - value]

\* lines 93-95
record_positive(h, value) == [h EXCEPT !.max_positive = Max(@, value)]

\* lines 97-99
record_negative(h, value) == [h EXCEPT !.min_negative = Max(@, value)]

\* a faulty variant of record: the history is left as it is
RecordNothing(a) == [res |-> "Ok", agg |-> a]

\* lines 123-133
record(a) ==
    IF a.history.tag = "None" THEN [res |-> "Ok", agg |-> a]
    ELSE CASE a.state = "PositiveDelta" ->
                [res |-> "Ok",
                 agg |-> [a EXCEPT !.history = record_positive(@, a.value)]]
           [] a.state = "NegativeDelta" ->
                [res |-> "Ok",
                 agg |-> [a EXCEPT !.history = record_negative(@, a.value)]]
           [] OTHER -> [res |-> "Panic", agg |-> a]

\* a faulty variant of validate_history: min_negative is not checked
ValidatePositiveOnly(a, base_value) ==
    IF a.history.tag = "None" THEN "Panic"
    ELSE IF addition(base_value, a.history.max_positive, a.limit).res = "Err" THEN "Err"
    ELSE "Ok"

\* lines 140-152
validate_history(a, base_value) ==
    IF a.history.tag = "None" THEN "Panic"
    ELSE IF addition(base_value, a.history.max_positive, a.limit).res = "Err" THEN "Err"
    ELSE IF subtraction(base_value, a.history.min_negative).res = "Err" THEN "Err"
    ELSE "Ok"

\* a call that stops at the error of a checked operation r, or goes on with
\* the aggregator a1
Try(r, a, a1) == IF r.res = "Err" THEN [res |-> "Err", agg |-> a] ELSE a1

\* lines 155-185
add(a, value) ==
    CASE a.state = "Data" ->
           Try(addition(a.value, value, a.limit), a,
               [res |-> "Ok",
                agg |-> [a EXCEPT !.value = addition(a.value, value, a.limit).value]])
      [] a.state = "PositiveDelta" ->
           Try(addition(a.value, value, a.limit), a,
               record([a EXCEPT !.value = addition(a.value, value, a.limit).value]))
      [] OTHER ->
           IF a.value <= value
           THEN record([a EXCEPT !.value = subtraction(value, a.value).value,
                                 !.state = "PositiveDelta"])
           ELSE record([a EXCEPT !.value = subtraction(a.value, value).value])

\* lines 188-228
sub(a, value) ==
    CASE a.state = "Data" ->
           Try(subtraction(a.value, value), a,
               [res |-> "Ok",
                agg |-> [a EXCEPT !.value = subtraction(a.value, value).value]])
      [] a.state = "PositiveDelta" ->
           IF a.value >= value
           THEN record([a EXCEPT !.value = subtraction(a.value, value).value])
           ELSE Try(subtraction(a.limit, value), a,
                    record([a EXCEPT !.value = subtraction(value, a.value).value,
                                     !.state = "NegativeDelta"]))
      [] OTHER ->
           Try(addition(a.value, value, a.limit), a,
               record([a EXCEPT !.value = addition(a.value, value, a.limit).value]))

\* what the resolver answers for the id: an error, no value, or the value
StorageErr == -2

\* a faulty variant of materialize: the history is not validated
MaterializeUnvalidated(a, b) ==
    LET r == IF a.state = "PositiveDelta" THEN addition(b, a.value, a.limit)
             ELSE subtraction(b, a.value)
    IN  IF r.res = "Err" THEN [res |-> "Panic", agg |-> a]
        ELSE [res |-> "Ok",
              agg |-> [a EXCEPT !.value = r.value, !.state = "Data",
                                !.history = NoHistory]]

\* a faulty variant of materialize: line 277 is lost, the history stays
MaterializeKeepsHistory(a, b) ==
    IF validate_history(a, b) # "Ok" THEN [res |-> validate_history(a, b), agg |-> a]
    ELSE LET r == IF a.state = "PositiveDelta" THEN addition(b, a.value, a.limit)
                  ELSE subtraction(b, a.value)
         IN  IF r.res = "Err" THEN [res |-> "Panic", agg |-> a]
             ELSE [res |-> "Ok",
                   agg |-> [a EXCEPT !.value = r.value, !.state = "Data"]]

\* lines 259-279: validate the history and apply the delta to the value b
\* read from storage
materialize(a, b) ==
    IF validate_history(a, b) # "Ok" THEN [res |-> validate_history(a, b), agg |-> a]
    ELSE LET r == IF a.state = "PositiveDelta" THEN addition(b, a.value, a.limit)
                  ELSE subtraction(b, a.value)
         IN  IF r.res = "Err" THEN [res |-> "Panic", agg |-> a]
             ELSE [res |-> "Ok",
                   agg |-> [a EXCEPT !.value = r.value, !.state = "Data",
                                     !.history = NoHistory]]

\* lines 233-280; from_storage is the resolver's answer
read_and_materialize(a, from_storage) ==
    IF a.state = "Data" THEN [res |-> "Ok", agg |-> a]
    ELSE IF from_storage \in {StorageErr, None} THEN [res |-> "Err", agg |-> a]
    ELSE materialize(a, from_storage)

(***************************************************************************)
(* aggregator_extension.rs: AggregatorData                                  *)
(* [new_aggregators, destroyed_aggregators, aggregators]; aggregators is a  *)
(* function from the ids in use to their instances.                         *)
(***************************************************************************)
AggregatorDataDefault ==
    [new_aggregators |-> {}, destroyed_aggregators |-> {}, aggregators |-> <<>>]

\* lines 307-319
get_aggregator(d, id, limit) ==
    IF id \in DOMAIN d.aggregators THEN d
    ELSE [d EXCEPT !.aggregators =
             Put(@, id, [value |-> 0, state |-> "PositiveDelta", limit |-> limit,
                         history |-> HistoryNew])]

\* lines 329-338
create_new_aggregator(d, id, limit) ==
    [d EXCEPT !.aggregators =
                 Put(@, id, [value |-> 0, state |-> "Data", limit |-> limit,
                             history |-> NoHistory]),
              !.new_aggregators = @ \cup {id}]

\* a faulty variant of remove_aggregator: the test of line 346 is lost and
\* every removed id is marked destroyed
RemoveAlwaysDestroys(d, id) ==
    [d EXCEPT !.aggregators = [k \in DOMAIN d.aggregators \ {id} |-> d.aggregators[k]],
              !.destroyed_aggregators = @ \cup {id}]

\* lines 342-354
remove_aggregator(d, id) ==
    LET d1 == [d EXCEPT !.aggregators =
                  [k \in DOMAIN d.aggregators \ {id} |-> d.aggregators[k]]]
    IN  IF id \in d.new_aggregators
        THEN [d1 EXCEPT !.new_aggregators = @ \ {id}]
        ELSE [d1 EXCEPT !.destroyed_aggregators = @ \cup {id}]

(***************************************************************************)
(* Specification SpecAgg: one transaction's AggregatorData.  The natives    *)
(* obtain instances with get_aggregator / create_new_aggregator and call    *)
(* add, sub and read_and_materialize on them; oplog keeps, per instance,    *)
(* the signed arguments of the add/sub calls that succeeded since the       *)
(* instance was inserted, and acall describes the last call.                *)
(***************************************************************************)
MaxIds == 1

MaxLimit == 2

MaxValue == 3

MaxOps == 3

Ids == 1..MaxIds

NoCall == [op |-> "none", id |-> 0, arg |-> 0, res |-> "Ok", before |-> NoHistory]

InitAgg ==
    /\ pc = "agg"
    /\ ord = <<>>
    /\ nodes = {}
    /\ graph = <<>>
    /\ tarjan = TarjanInit
    /\ bbs0 = <<>>
    /\ bbs = <<>>
    /\ res = "none"
    /\ loops = <<>>
    /\ calls = <<>>
    /\ sorted = <<>>
    /\ sres = "none"
    /\ sorder = <<>>
    /\ sforced = <<>>
    /\ adata = AggregatorDataDefault
    /\ oplog = <<>>
    /\ acall = NoCall

AggFrame ==
    UNCHANGED <<ord, nodes, graph, tarjan, bbs0, bbs, res, loops, calls, sorted, sres, sorder, sforced>>

GetAggregator ==
    \E id \in Ids : \E limit \in 0..MaxLimit :
       /\ pc = "agg"
       /\ adata' = get_aggregator(adata, id, limit)
       /\ oplog' = IF id \in DOMAIN adata.aggregators THEN oplog ELSE Put(oplog, id, <<>>)
       /\ acall' = [op |-> "get_aggregator", id |-> id, arg |-> limit, res |-> "Ok",
                    before |-> Get(adata.aggregators, id, NoHistory)]
       /\ pc' = pc
       /\ AggFrame

CreateNewAggregator ==
    \E id \in Ids : \E limit \in 0..MaxLimit :
       /\ pc = "agg"
       /\ adata' = create_new_aggregator(adata, id, limit)
       /\ oplog' = Put(oplog, id, <<>>)
       /\ acall' = [op |-> "create_new_aggregator", id |-> id, arg |-> limit,
                    res |-> "Ok", before |-> Get(adata.aggregators, id, NoHistory)]
       /\ pc' = pc
       /\ AggFrame

RemoveAggregator ==
    \E id \in Ids :
       /\ pc = "agg"
       /\ adata' = remove_aggregator(adata, id)
       /\ oplog' = [k \in DOMAIN oplog \ {id} |-> oplog[k]]
       /\ acall' = [op |-> "remove_aggregator", id |-> id, arg |-> 0, res |-> "Ok",
                    before |-> Get(adata.aggregators, id, NoHistory)]
       /\ pc' = pc
       /\ AggFrame

\* the effect of a call on instance id that returned r
Called(op, id, arg, r, signed) ==
    /\ adata' = [adata EXCEPT !.aggregators[id] = r.agg]
    /\ oplog' = IF r.res = "Ok" /\ op # "read_and_materialize"
                THEN [oplog EXCEPT ![id] = Append(@, signed)] ELSE oplog
    /\ acall' = [op |-> op, id |-> id, arg |-> arg, res |-> r.res,
                 before |-> adata.aggregators[id]]
    /\ pc' = IF r.res = "Panic" THEN "aborted" ELSE pc
    /\ AggFrame

Add ==
    \E id \in DOMAIN adata.aggregators : \E value \in 0..MaxValue :
       /\ pc = "agg"
       /\ Len(oplog[id]) < MaxOps
       /\ Called("add", id, value, add(adata.aggregators[id], value), value)

Sub ==
    \E id \in DOMAIN adata.aggregators : \E value \in 0..MaxValue :
       /\ pc = "agg"
       /\ Len(oplog[id]) < MaxOps
       /\ Called("sub", id, value, sub(adata.aggregators[id], value), 0 - value)

ReadAndMaterialize ==
    \E id \in DOMAIN adata.aggregators :
    \E from_storage \in {StorageErr, None} \cup 0..MaxValue :
       /\ pc = "agg"
       /\ Called("read_and_materialize", id, from_storage,
                 read_and_materialize(adata.aggregators[id], from_storage), 0)

NextAgg ==
    \/ GetAggregator
    \/ CreateNewAggregator
    \/ RemoveAggregator
    \/ Add
    \/ Sub
    \/ ReadAndMaterialize

SpecAgg == InitAgg /\ [][NextAgg]_vars

(***************************************************************************)
(* C13                                                                      *)
(***************************************************************************)
\* the last call was op on an instance that was in a delta state
DeltaCall(op) ==
    /\ acall.op = op
    /\ acall.before.state \in {"PositiveDelta", "NegativeDelta"}

\* the instance the last call acted on, as the call left it
After == adata.aggregators[acall.id]

\* the base value b passes the history of the aggregator a
HistoryFits(a, b) ==
    /\ b + a.history.max_positive <= a.limit
    /\ b >= a.history.min_negative

\* C13: read_and_materialize of an aggregator in a delta state with limit L
\* against the stored base value b succeeds iff b + history.max_positive <= L
\* and b >= history.min_negative; on success the value is b plus
\* (PositiveDelta) or minus (NegativeDelta) the delta, the state is Data and
\* the history is None; it fails when storage has no value for the id.
MaterializeIffHistoryFits ==
    DeltaCall("read_and_materialize") =>
       /\ acall.res = "Ok" <=> (acall.arg >= 0 /\ HistoryFits(acall.before, acall.arg))
       /\ acall.arg \in {None, StorageErr} => acall.res = "Err"
       /\ acall.res = "Ok" =>
             /\ After.value = IF acall.before.state = "PositiveDelta"
                              THEN acall.arg + acall.before.value
                              ELSE acall.arg - acall.before.value
             /\ After.state = "Data"
             /\ After.history = NoHistory
       /\ acall.res # "Ok" => After = acall.before

\* a materialization that fails although the final delta fits the base
\* value (an intermediate delta did not)
MaterializeRejectsIntermediate ==
    /\ DeltaCall("read_and_materialize")
    /\ acall.res = "Err"
    /\ acall.arg >= 0
    /\ acall.before.state = "PositiveDelta"
    /\ acall.arg + acall.before.value <= acall.before.limit
    /\ acall.before.history.min_negative = 0

(***************************************************************************)
(* C14                                                                      *)
(***************************************************************************)
\* the signed delta an aggregator in a delta state holds
Signed(a) == IF a.state = "NegativeDelta" THEN 0 - a.value ELSE a.value

InDelta(a) == a.state \in {"PositiveDelta", "NegativeDelta"}

\* C14: add(v) returns an error whenever the resulting known value or
\* positive delta would exceed the limit; sub(v) returns an error whenever,
\* in Data state, v exceeds the value, or, in a delta state, the resulting
\* negative delta would have a magnitude above the limit; a failed add or
\* sub leaves value, state and history unchanged.
AddSubErrors ==
    /\ (acall.op = "add" /\ acall.before.state = "Data"
          /\ acall.before.value + acall.arg > acall.before.limit) => acall.res = "Err"
    /\ (acall.op = "add" /\ InDelta(acall.before)
          /\ Signed(acall.before) + acall.arg > acall.before.limit) => acall.res = "Err"
    /\ (acall.op = "sub" /\ acall.before.state = "Data"
          /\ acall.arg > acall.before.value) => acall.res = "Err"
    /\ (acall.op = "sub" /\ InDelta(acall.before)
          /\ acall.arg - Signed(acall.before) > acall.before.limit) => acall.res = "Err"
    /\ (acall.op \in {"add", "sub"} /\ acall.res = "Err") => After = acall.before

(***************************************************************************)
(* C15                                                                      *)
(***************************************************************************)
RECURSIVE Sum(_)
Sum(s) == IF s = <<>> THEN 0 ELSE Sum(SubSeq(s, 1, Len(s) - 1)) + s[Len(s)]

\* the deltas held after each operation of the log s
Held(s) == {Sum(SubSeq(s, 1, k)) : k \in 1..Len(s)}

\* the largest member of a finite set of naturals that contains 0
Largest(S) == CHOOSE x \in S : \A y \in S : y <= x

\* C15: for an aggregator obtained in delta state, after any sequence of
\* successful add/sub calls the signed delta is the running sum of the
\* operations (PositiveDelta for sums >= 0, NegativeDelta for sums < 0),
\* history.max_positive is the largest positive delta held after any
\* operation and history.min_negative the largest magnitude of a negative
\* delta held after any operation.
DeltaIsRunningSum ==
    \A id \in DOMAIN adata.aggregators :
       LET a == adata.aggregators[id]
           s == oplog[id]
       IN  InDelta(a) =>
              /\ Signed(a) = Sum(s)
              /\ a.state = "PositiveDelta" <=> Sum(s) >= 0
              /\ a.history.tag = "Some"
              /\ a.history.max_positive = Largest({0} \cup {x \in Held(s) : x > 0})
              /\ a.history.min_negative = Largest({0} \cup {0 - x : x \in {y \in Held(s) : y < 0}})

\* three operations took the delta below zero and back above it, and the
\* delta held now is not the largest one seen
DeltaIsRunningSumWitness ==
    \E id \in DOMAIN adata.aggregators :
       LET a == adata.aggregators[id]
       IN  /\ acall.op = "sub" /\ acall.res = "Ok" /\ acall.id = id
           /\ Len(oplog[id]) = 3
           /\ a.state = "PositiveDelta"
           /\ a.history.tag = "Some"
           /\ a.history.max_positive > a.value
           /\ a.history.min_negative > 0

(***************************************************************************)
(* C16                                                                      *)
(***************************************************************************)
\* the records of the loops whose entry is block i
LoopsOf(i) == {k \in LoopsDone : loops[k].entry = i}

\* C16: whenever loop reconstruction has set unconditional_loop_entry on a
\* loop entry, the value is the index of an existing block that is an exit
\* of that loop component, also for a loop without exit edges.
LoopExitRecorded ==
    (Structured /\ res = "Ok") =>
       \A i \in DOMAIN bbs :
          bbs[i].unconditional_loop_entry # None =>
             /\ bbs[i].unconditional_loop_entry \in DOMAIN bbs
             /\ \E k \in LoopsOf(i) :
                   /\ loops[k].exit = bbs[i].unconditional_loop_entry
                   /\ loops[k].exit \in loops[k].exits

(***************************************************************************)
(* C17                                                                      *)
(***************************************************************************)
\* C17: Tarjan's component ids are in reverse topological order: for every
\* edge u -> v of the graph with u and v in different components, the id of
\* v's component is smaller than the id of u's component, whatever the
\* iteration order of the node and successor sets.
SccReverseTopological ==
    pc = "scc" =>
       \A u \in nodes : \A v \in edges(TheGraph, u) :
          tarjan.scc[u] # tarjan.scc[v] => tarjan.scc[v] < tarjan.scc[u]

\* three components in a chain, iterated from the sink towards the source
SccReverseTopologicalWitness ==
    /\ pc = "scc"
    /\ Len(tarjan.sccs) = 3
    /\ 1 \in edges(TheGraph, 0) /\ 2 \in edges(TheGraph, 1)
    /\ ord = <<2, 1, 0>>

(***************************************************************************)
(* C18                                                                      *)
(***************************************************************************)
\* the entry of loop record L is an IfElse whose else-target is an exit
ElseIsExit(L) ==
    /\ L.before[L.entry].tag = "IfElse"
    /\ L.before[L.entry].else_block \in L.exits

\* x has the largest offset among the exits of L
LargestOffset(L, x) ==
    x \in L.exits /\ \A y \in L.exits : bbs[y].offset <= bbs[x].offset

\* C18: with more than one exit candidate the chosen scc_exit is the
\* else_block of the entry's IfElse when that is among the exits, and
\* otherwise the exit candidate with the largest offset; with exactly one
\* candidate it is that candidate; with at least one candidate it is a
\* member of the exit set.
ExitChoice ==
    Structured =>
       \A k \in DOMAIN loops :
          LET L == loops[k]
              n == Cardinality(L.exits)
          IN  /\ n >= 1 => L.exit \in L.exits
              /\ (n > 1 /\ ElseIsExit(L)) => L.exit = L.before[L.entry].else_block
              /\ (n > 1 /\ ~ElseIsExit(L)) => LargestOffset(L, L.exit)

\* a rewritten loop with two exits whose entry prefers its else-target
\* although the other exit has the larger offset
ExitChoiceWitness ==
    /\ Structured
    /\ \E k \in LoopsDone :
          /\ Cardinality(loops[k].exits) > 1
          /\ ElseIsExit(loops[k])
          /\ loops[k].exit = loops[k].before[loops[k].entry].else_block
          /\ ~LargestOffset(loops[k], loops[k].exit)

(***************************************************************************)
(* C19                                                                      *)
(***************************************************************************)
\* the entry of loop record L is an IfElse whose if_block is neither in the
\* component nor its chosen exit
IfBlockOutside(L) ==
    /\ L.before[L.entry].tag = "IfElse"
    /\ L.before[L.entry].if_block \notin L.nodes
    /\ L.before[L.entry].if_block # L.exit

\* C19: for a validated loop component whose entry terminator is IfElse the
\* pass returns "entry node is not in SCC" exactly when the entry's if_block
\* is neither a member of the component nor the chosen scc_exit, and then
\* the entry is neither turned into a While nor given an
\* unconditional_loop_entry.
EntryNotInScc ==
    Structured =>
       \A k \in DOMAIN loops :
          LET L == loops[k]
          IN  L.before[L.entry].tag = "IfElse" =>
                 /\ L.res = "ErrEntryNotInScc" <=> IfBlockOutside(L)
                 /\ L.res = "ErrEntryNotInScc" =>
                       /\ res = "ErrEntryNotInScc"
                       /\ k = Len(loops)
                       /\ bbs[L.entry].next = L.before[L.entry]
                       /\ bbs[L.entry].unconditional_loop_entry = None

\* the pass stopped at a loop whose IfElse entry leaves the component by its
\* if_block while another exit was chosen
EntryNotInSccWitness ==
    /\ Structured
    /\ res = "ErrEntryNotInScc"
    /\ IfBlockOutside(loops[Len(loops)])
    /\ loops[Len(loops)].exit \in loops[Len(loops)].exits

(***************************************************************************)
(* C20                                                                      *)
(***************************************************************************)
\* the emitted While blocks whose two targets differ
EmittedWhiles ==
    {w \in Emitted \cap DOMAIN bbs :
        bbs[w].next.tag = "While" /\ bbs[w].next.inner_block # bbs[w].next.outer_block}

\* C20: in every order topo_sort returns, for every emitted block with
\* terminator While{inner_block, outer_block} (inner_block # outer_block),
\* inner_block is placed before outer_block.
BodyBeforeAfterLoop ==
    (Sorted /\ sres = "Ok") =>
       \A w \in EmittedWhiles :
          /\ {bbs[w].next.inner_block, bbs[w].next.outer_block} \subseteq Emitted
          /\ Pos(bbs[w].next.inner_block) < Pos(bbs[w].next.outer_block)

(***************************************************************************)
(* C21                                                                      *)
(***************************************************************************)
\* the marks of synthetic block s: priority 0, one origin block, and the
\* exit of a rewritten loop as the only topo_before member
SyntheticMarks(s) ==
    /\ bbs[s].topo_priority = 0
    /\ bbs[s].next.tag \in {"Break", "Continue"}
    /\ Cardinality(bbs[s].topo_after) = 1
    /\ bbs[s].topo_after \subseteq DOMAIN bbs0
    /\ \E k \in LoopsDone :
          /\ Origin(s) \in loops[k].nodes
          /\ bbs[s].topo_before = {loops[k].exit}

\* the block the synthetic block s must precede
ExitOf(s) == CHOOSE x \in bbs[s].topo_before : TRUE

\* C21: every synthetic block appended by loop reconstruction carries
\* topo_priority = Some(0), topo_after = {its origin} and topo_before =
\* {the loop exit}, and in the order topo_sort produces for the output of a
\* successful loop_reconstruction it is placed immediately after its origin
\* block and before the loop exit block.
SyntheticPinned ==
    /\ (Structured /\ res = "Ok") =>
          \A s \in DOMAIN bbs : IsSynthetic(s) => SyntheticMarks(s)
    /\ (Sorted /\ res = "Ok" /\ sres = "Ok") =>
          \A s \in DOMAIN bbs :
             (IsSynthetic(s) /\ s \in Emitted) =>
                /\ Origin(s) \in Emitted
                /\ Pos(s) = Pos(Origin(s)) + 1
                /\ ExitOf(s) \in Emitted => Pos(s) < Pos(ExitOf(s))


\* ---------------------------------------------------------------------------
\* C22: the vertex forced when the ready queue runs empty
\* ---------------------------------------------------------------------------
ForcedSteps == {sforced[k] : k \in 1..Len(sforced)}

PrunedEdges ==
    [i \in DOMAIN bbs |-> IF i \in FlowReach THEN block_edges(bbs)[i] ELSE <<>>]

\* the order the sort returns on the pruned edges, with the constraint edges
\* and the priorities of the array
PrunedOrder ==
    topo_sort_stable_usize(PrunedEdges, block_constraint_edges(bbs),
        [i \in DOMAIN bbs |-> block_priority(bbs[i], max_block_offset(bbs))]).order

\* C23: when topo_sort succeeds, exactly the blocks reachable from index 0
\* through ordinary edges are emitted, and they are emitted in the order the
\* sort gives when the unreachable blocks have no outgoing ordinary edge.
OnlyReachableParticipate ==
    (Sorted /\ sres = "Ok") =>
        /\ Emitted = FlowReach
        /\ sorder = PrunedOrder


\* ---------------------------------------------------------------------------
\* C24: the order is topological when every block is reachable and the edges
\* have no cycle
\* ---------------------------------------------------------------------------
\* the ordinary and constraint successors and predecessors of block u
UnionSucc(u) == FlowSucc(u) \cup ConstraintSucc(u)

UnionPred(v) == {u \in DOMAIN bbs : v \in UnionSucc(u)}

RECURSIVE UnionClosure(_)
UnionClosure(S) ==
    LET T == S \cup UNION {UnionSucc(x) : x \in S}
    IN  IF T = S THEN S ELSE UnionClosure(T)

UnionAcyclic == \A a \in DOMAIN bbs : a \notin UnionClosure(UnionSucc(a))

AllReachable == FlowReach = DOMAIN bbs

\* the blocks emitted before position k of the order
Prefix(k) == {sorder[j] : j \in 1..(k - 1)}

\* the blocks not yet emitted at position k whose predecessors all are
ReadyAt(k) == {v \in DOMAIN bbs \ Prefix(k) : UnionPred(v) \subseteq Prefix(k)}

Priorities == [i \in DOMAIN bbs |-> block_priority(bbs[i], max_block_offset(bbs))]

NoLog == [loops |-> <<>>, calls |-> <<>>]

\* C25: an invocation of loop_reconstruction_recursive with an empty view
\* returns Ok and changes nothing, and the top-level call on an empty block
\* array returns Ok and leaves the array empty.
EmptyViewOk ==
    /\ \A s \in DOMAIN bbs0 : \A o \in HashOrders(BLen(bbs0)) :
          loop_reconstruction_recursive(bbs0, o, {}, s, NoLog)
             = [bbs |-> bbs0, res |-> "Ok", log |-> NoLog]
    /\ (Structured /\ DOMAIN bbs0 = {}) => (res = "Ok" /\ DOMAIN bbs = {})


\* ---------------------------------------------------------------------------
\* C26: loop_reconstruction only appends
\* ---------------------------------------------------------------------------
\* the blocks of the loop components that were rewritten, in any invocation
LoopMembers == UNION {loops[k].nodes : k \in DOMAIN loops}

\* C26: after a successful loop_reconstruction on N blocks the positions
\* 0..N-1 hold the original blocks with their idx and offset, every block at
\* a position >= N is synthetic (offset usize::MAX), ends in Break or
\* Continue and has its position as idx, and every original block that is in
\* no loop component (blocks unreachable from block 0 among them) keeps its
\* terminator.
OnlyAppends ==
    (Structured /\ res = "Ok") =>
        /\ DOMAIN bbs0 \subseteq DOMAIN bbs
        /\ \A i \in DOMAIN bbs0 :
              /\ bbs[i].idx = bbs0[i].idx
              /\ bbs[i].offset = bbs0[i].offset
        /\ \A i \in DOMAIN bbs \ DOMAIN bbs0 :
              /\ bbs[i].offset = UsizeMax
              /\ bbs[i].next.tag \in {"Break", "Continue"}
              /\ bbs[i].idx = i
        /\ \A i \in DOMAIN bbs0 \ LoopMembers : bbs[i].next = bbs0[i].next
        /\ \A i \in DOMAIN bbs0 \ Reach0 : bbs[i].next = bbs0[i].next

\* a successful run that appended a block, rewrote a loop, and left alone a
\* reachable block outside the loop and an unreachable block that jumps into it
OnlyAppendsWitness ==
    /\ Structured /\ res = "Ok"
    /\ DOMAIN bbs # DOMAIN bbs0
    /\ \E i \in Reach0 \ LoopMembers : bbs0[i].next.tag = "Branch"
    /\ \E i \in DOMAIN bbs0 \ Reach0 : \E m \in LoopMembers :
          bbs0[i].next = Branch(m)
    /\ \E m \in LoopMembers : bbs[m].next # bbs0[m].next


\* ---------------------------------------------------------------------------
\* C27: the delta execution against the direct execution
\* ---------------------------------------------------------------------------
\* an aggregator that holds the known value b under the limit
DataAggregator(b, limit) ==
    [value |-> b, state |-> "Data", limit |-> limit, history |-> NoHistory]

RECURSIVE Direct(_, _)
\* the signed operations s applied one after the other to the aggregator a,
\* stopping at the first that fails
Direct(a, s) ==
    IF s = <<>> THEN [res |-> "Ok", agg |-> a]
    ELSE LET r == IF s[1] >= 0 THEN add(a, s[1]) ELSE sub(a, 0 - s[1])
         IN  IF r.res # "Ok" THEN r ELSE Direct(r.agg, Tail(s))

\* the signed argument of the last call
SignedArg == IF acall.op = "sub" THEN 0 - acall.arg ELSE acall.arg

\* C27: for an aggregator obtained in delta state with limit L and a base
\* value b <= L, the operations applied to the delta and then materialized
\* against b succeed iff the same operations applied to a Data aggregator
\* holding b all succeed, and then both end with the same value; an
\* operation the delta rejects is rejected by the direct execution for
\* every such b.
DeltaMatchesDirect ==
    /\ (DeltaCall("read_and_materialize") /\ acall.arg \in 0..acall.before.limit) =>
          LET d == Direct(DataAggregator(acall.arg, acall.before.limit), oplog[acall.id])
          IN  /\ acall.res = "Ok" <=> d.res = "Ok"
              /\ acall.res = "Ok" => After.value = d.agg.value
    /\ (acall.op \in {"add", "sub"} /\ InDelta(acall.before) /\ acall.res # "Ok") =>
          \A b \in 0..acall.before.limit :
             Direct(DataAggregator(b, acall.before.limit),
                    Append(oplog[acall.id], SignedArg)).res # "Ok"

\* a materialization after three operations that fails against a base value
\* the final delta would fit: the direct execution fails at an intermediate
\* operation
DeltaMatchesDirectWitness ==
    /\ DeltaCall("read_and_materialize")
    /\ acall.arg \in 0..acall.before.limit
    /\ Len(oplog[acall.id]) = 3
    /\ acall.res = "Err"
    /\ acall.arg + Signed(acall.before) \in 0..acall.before.limit


\* ---------------------------------------------------------------------------
\* C28: creating and removing aggregators
\* ---------------------------------------------------------------------------
\* the step is a call of remove_aggregator
RemoveStep == acall'.op = "remove_aggregator"

\* every id created in this transaction has an instance
NewHaveInstances == adata.new_aggregators \subseteq DOMAIN adata.aggregators

NeverAborts ==
    (Structured /\ DOMAIN bbs0 # {}) => res # "Panic"


\* ---------------------------------------------------------------------------
\* C30: block 0 stays first
\* ---------------------------------------------------------------------------
\* C30: whenever topo_sort returns Ok, block 0 of its input is the first
\* block of the order and so block 0 of the returned array, also when block 0
\* is a loop header with back edges and when blocks carry topo_priority or
\* ordering constraints.
EntryFirst ==
    (Sorted /\ sres = "Ok") =>
        /\ Len(sorder) >= 1
        /\ sorder[1] = 0
        /\ sorted[0].offset = bbs[0].offset


\* ---------------------------------------------------------------------------
\* C31: the constraint-cycle error
\* ---------------------------------------------------------------------------
\* C31: topo_sort fails with "cycle detected in constraint graph" only when
\* the constraint edges among the blocks reachable from index 0 contain a
\* cycle; a constraint that names a block unreachable from index 0 never
\* makes the sort fail.
CycleErrorOnlyOnCycle ==
    (Sorted /\ sres = "ErrConstraintCycle") => ConstraintCycle


\* ---------------------------------------------------------------------------
\* C32: the arithmetic of the priorities
\* ---------------------------------------------------------------------------
\* Specification SpecPriority: topo_sort on arrays of Ret blocks whose
\* offsets are their positions or usize::MAX, with or without a
\* topo_priority; SortPriorities is the call of topo_sort.
MaxPriorityBlocks == 3

PriorityBlock(i, synthetic, p) ==
    [RawBlock(i, Ret) EXCEPT !.offset = IF synthetic THEN UsizeMax ELSE i,
                             !.topo_priority = p]

InitPriority ==
    /\ pc = "edit"
    /\ ord = <<>>
    /\ nodes = {}
    /\ graph = <<>>
    /\ tarjan = TarjanInit
    /\ \E n \in 1..MaxPriorityBlocks :
       \E synthetic \in [0..(n - 1) -> BOOLEAN] :
       \E p \in [0..(n - 1) -> {None, 0}] :
          /\ bbs0 = [i \in 0..(n - 1) |-> PriorityBlock(i, synthetic[i], p[i])]
          /\ bbs = [i \in 0..(n - 1) |-> PriorityBlock(i, synthetic[i], p[i])]
    /\ res = "none"
    /\ loops = <<>>
    /\ calls = <<>>
    /\ sorted = <<>>
    /\ sres = "none"
    /\ sorder = <<>>
    /\ sforced = <<>>
    /\ adata = <<>>
    /\ oplog = <<>>
    /\ acall = <<>>

SortPriorities ==
    /\ pc = "edit"
    /\ \E debug \in BuildProfiles(bbs) :
          LET r == topo_sort(bbs, debug)
          IN  /\ sorted' = r.blocks
              /\ sres' = r.res
              /\ sorder' = r.order
              /\ sforced' = r.forced
    /\ pc' = "sorted"
    /\ UNCHANGED <<ord, nodes, graph, tarjan, bbs0, bbs, res, loops, calls, adata, oplog, acall>>

NextPriority == SortPriorities

SpecPriority == InitPriority /\ [][NextPriority]_vars

\* C32: the priority of every block of an array handed to topo_sort is
\* computed inside the range of usize; for a block with offset usize::MAX and
\* no topo_priority, usize::MAX - max_block_offset - 1 + offset neither
\* underflows nor overflows.
PriorityInRange ==
    Sorted => \A i \in DOMAIN bbs : ~priority_overflows(bbs[i], max_block_offset(bbs))


\* ---------------------------------------------------------------------------
\* C33: termination of the sort, and what it emits
\* ---------------------------------------------------------------------------
\* no vertex is emitted twice
EmittedOnce == \A j, k \in 1..Len(sorder) : sorder[j] = sorder[k] => j = k

\* every round of the outer loop that forces a vertex forces one that is
\* still to be placed, and the next round has fewer vertices to place
RoundsProgress ==
    /\ \A k \in 1..Len(sforced) : sforced[k].v \in sforced[k].remain
    /\ \A k \in 1..(Len(sforced) - 1) :
          /\ sforced[k + 1].remain \subseteq sforced[k].remain
          /\ sforced[k].v \notin sforced[k + 1].remain

\* C33: topo_sort_stable_usize ends on every array with at least one block,
\* each round of its outer loop emitting a vertex or returning the
\* constraint-cycle error, and on success every block reachable from block 0
\* is in the order exactly once and no unreachable block is in it.
SortEmitsReachableOnce ==
    (Sorted /\ BLen(bbs) >= 1) =>
        /\ sres \in {"Ok", "ErrConstraintCycle", "ErrUnsupportedTerminator", "Panic"}
        /\ RoundsProgress
        /\ sres = "Ok" =>
              /\ EmittedOnce
              /\ FlowReach \subseteq Emitted
              /\ Emitted \subseteq FlowReach


\* ---------------------------------------------------------------------------
\* C34: the history goes with the delta states
\* ---------------------------------------------------------------------------
\* C34: after any sequence of get_aggregator, create_new_aggregator, add, sub
\* and read_and_materialize calls every instance has a history exactly when
\* it is in PositiveDelta or NegativeDelta and none exactly when it is in
\* Data, so no call aborts: record never meets a history in Data state and
\* validate_history never misses one.
HistoryMatchesState ==
    /\ \A id \in DOMAIN adata.aggregators :
          /\ adata.aggregators[id].history.tag = "Some" <=> InDelta(adata.aggregators[id])
          /\ adata.aggregators[id].history = NoHistory
                <=> adata.aggregators[id].state = "Data"
    /\ pc # "aborted"
    /\ acall.res # "Panic"

\* an instance obtained in delta state took two operations, was materialized
\* and then took an add as a Data aggregator without a history
HistoryMatchesStateWitness ==
    /\ acall.op = "add" /\ acall.res = "Ok" /\ acall.arg > 0
    /\ acall.before.state = "Data"
    /\ acall.id \notin adata.new_aggregators
    /\ Len(oplog[acall.id]) = 3
    /\ After.history = NoHistory

=============================================================================
